---- MODULE Spec2Model ----
\* Verification model of prr (danobi/prr): the review-file parser
\* (src/src/parser.rs) and the review lifecycle, snip resolution and
\* validation (src/src/review.rs).
\*
\* A Rust string is a sequence of tokens.  A token is one character (">",
\* " ", "-", "+", "\n", a digit, a letter) or a multi-character fragment
\* that no operation of the program ever splits ("diff --git ", "@@ -",
\* "[...]", "@prr", ...).  A number is one digit token.
EXTENDS Integers, Sequences, FiniteSets, TLC

VARIABLES
    \* the parser and what it returned
    state,      \* ReviewParser.state
    ret,        \* result of the last parse_line call
    fin,        \* result of finish(), FinPending before the call
    \* history of the input fed to the parser
    nlines,     \* number of lines consumed
    lastLine,   \* the line consumed last
    unedited,   \* every line so far is a quoted diff line, a diff header first
    lastFile,   \* new path of the last quoted diff header of the input
    prevFile,   \* lastFile before the line consumed last
    inHunk,     \* the last quoted header line of the input is a hunk header
    hunkL, hunkR,       \* the starts that hunk header declares
    nDel, nAdd, nCtx,   \* quoted content lines of each kind since that header
    lastDel,    \* "del"/"other": kind of the last of them, "none" if none
    prev,       \* ReviewParser.state before the line consumed last
    openSpan,   \* start of the span opened and not yet commented on, or NoLoc
    hunkNo,     \* number of quoted diff and hunk headers consumed
    spanHunk,   \* hunkNo when that span was opened
    lastQuoted, \* location of the last quoted line consumed, or NoLoc
    commentAt,  \* openSpan, lastQuoted, spanHunk, hunkNo when the pending
                \* comment began
    captured,   \* file, line, span start of the parser at that moment
    \* one review: the metadata sidecar, the review file, results of calls
    original, contents, phase, snipOut, validOut,
    submitted,  \* ReviewMetadata.submitted: <<>> or <<seconds>>
    commit_id,  \* ReviewMetadata.commit_id: <<>> or <<id>>
    nEdits,     \* number of edits the user made to the review file
    op,         \* the last operation on the review and what it returned
    pre,        \* the review on disk before that operation
    run         \* the calls of resolve_snips_recurse in progress

parserVars == <<state, ret, fin, nlines, lastLine, unedited, lastFile, prevFile,
                inHunk, hunkL, hunkR, nDel, nAdd, nCtx, lastDel,
                prev, openSpan, hunkNo, spanHunk, lastQuoted, commentAt,
                captured>>
lifeVars == <<submitted, commit_id, nEdits, op, pre, run>>
reviewVars == <<original, contents, phase, snipOut, validOut, lifeVars>>
vars == <<parserVars, reviewVars>>

----------------------------------------------------------------------------
\* Bounds

\* Number of lines fed to one ReviewParser.
MaxLines == 6
\* Number of lines of a review file handed to resolve_snips.
MaxPat == 4
\* Number of lines of the original diff stored in the metadata.
MaxText == 3
\* Number of lines of a diff handed to Review::new.
MaxDiff == 3
\* Number of edits the user makes to one review file.
MaxEdits == 2

----------------------------------------------------------------------------
\* String primitives (Rust std::str)

SP == " "
NL == "\n"

IsWs(c) == c \in {SP, NL}

StartsWith(s, p) == Len(s) >= Len(p) /\ SubSeq(s, 1, Len(p)) = p

\* str::strip_prefix, applied where StartsWith holds
StripPrefix(s, p) == SubSeq(s, Len(p) + 1, Len(s))

RECURSIVE TrimEnd(_)
TrimEnd(s) ==
    IF s # <<>> /\ IsWs(s[Len(s)]) THEN TrimEnd(SubSeq(s, 1, Len(s) - 1)) ELSE s

RECURSIVE TrimStart(_)
TrimStart(s) ==
    IF s # <<>> /\ IsWs(s[1]) THEN TrimStart(Tail(s)) ELSE s

Trim(s) == TrimStart(TrimEnd(s))

\* index of the first "\n" of s, 0 when there is none
RECURSIVE FirstNL(_, _)
FirstNL(s, i) ==
    IF i > Len(s) THEN 0 ELSE IF s[i] = NL THEN i ELSE FirstNL(s, i + 1)

\* str::lines: split at "\n"; a final line needs no terminator
RECURSIVE Lines(_)
Lines(s) ==
    IF s = <<>> THEN <<>>
    ELSE LET i == FirstNL(s, 1) IN
         IF i = 0 THEN <<s>>
         ELSE <<SubSeq(s, 1, i - 1)>> \o Lines(SubSeq(s, i + 1, Len(s)))

\* [String]::join("\n")
RECURSIVE JoinNL(_)
JoinNL(ls) ==
    IF ls = <<>> THEN <<>>
    ELSE IF Len(ls) = 1 THEN ls[1]
    ELSE ls[1] \o <<NL>> \o JoinNL(Tail(ls))

\* every line followed by "\n"
RECURSIVE Unlines(_)
Unlines(ls) ==
    IF ls = <<>> THEN <<>> ELSE ls[1] \o <<NL>> \o Unlines(Tail(ls))

\* u64::saturating_sub(1)
SaturatingSub1(x) == IF x = 0 THEN 0 ELSE x - 1

Digits == <<"0", "1", "2", "3", "4", "5", "6", "7", "8", "9">>
IsDigit(c) == \E i \in 1..Len(Digits) : Digits[i] = c
\* str::parse::<u64> of a one-digit number
ParseU64(c) == (CHOOSE i \in 1..Len(Digits) : Digits[i] = c) - 1

----------------------------------------------------------------------------
\* parser.rs: data types

NoLoc == [side |-> "None", n |-> 0]
Left(k) == [side |-> "Left", n |-> k]
Right(k) == [side |-> "Right", n |-> k]

NoFile == <<>>

\* Result<Option<Comment>> of parse_line and Option<Comment> of finish
MkRet(kind, file, line, start_line, text, action) ==
    [kind |-> kind, file |-> file, line |-> line, start_line |-> start_line,
     text |-> text, action |-> action]
RetNone == MkRet("None", NoFile, NoLoc, NoLoc, <<>>, "")
RetErr(why) == MkRet("Err", NoFile, NoLoc, NoLoc, <<>>, why)
RetPanic == MkRet("Panic", NoFile, NoLoc, NoLoc, <<>>, "unreachable")
RetReview(text) == MkRet("Review", NoFile, NoLoc, NoLoc, text, "")
RetInline(file, line, start_line, text) ==
    MkRet("Inline", file, line, start_line, text, "")
RetAction(a) == MkRet("ReviewAction", NoFile, NoLoc, NoLoc, <<>>, a)

\* enum State with its payloads
MkState(tag, comment, file, left, right, line, span) ==
    [tag |-> tag, comment |-> comment, file |-> file, left_line |-> left,
     right_line |-> right, line |-> line, span_start_line |-> span]
StartState == MkState("Start", <<>>, NoFile, 0, 0, NoLoc, NoLoc)
FilePreambleState(file) == MkState("FilePreamble", <<>>, file, 0, 0, NoLoc, NoLoc)
FileDiffState(file, left, right, line, span) ==
    MkState("FileDiff", <<>>, file, left, right, line, span)
SpanStartOrCommentState(fds) ==
    MkState("SpanStartOrComment", <<>>, fds.file, fds.left_line,
            fds.right_line, fds.line, fds.span_start_line)
CommentState(fds, comment) ==
    MkState("Comment", comment, fds.file, fds.left_line, fds.right_line,
            fds.line, fds.span_start_line)

----------------------------------------------------------------------------
\* parser.rs: helpers

\* HUNK_START: ^@@ -(\d+),(\d+) \+(?:(\d+),)?(\d+) @@
HunkWithRStart(line) ==
    /\ Len(line) >= 9
    /\ line[1] = "@@ -" /\ IsDigit(line[2]) /\ line[3] = "," /\ IsDigit(line[4])
    /\ line[5] = " +" /\ IsDigit(line[6]) /\ line[7] = "," /\ IsDigit(line[8])
    /\ line[9] = " @@"
HunkWithoutRStart(line) ==
    /\ Len(line) >= 7
    /\ line[1] = "@@ -" /\ IsDigit(line[2]) /\ line[3] = "," /\ IsDigit(line[4])
    /\ line[5] = " +" /\ IsDigit(line[6]) /\ line[7] = " @@"
HUNK_START(line) == HunkWithRStart(line) \/ HunkWithoutRStart(line)

\* DIFF_START: ^diff --git a/.+ b/(?P<new>.+)$ ; the capture, <<>> on no match
DIFF_START(line) ==
    IF Len(line) >= 4 /\ line[1] = "diff --git " /\ line[2] = "a/x"
       /\ line[3] = " b/"
    THEN SubSeq(line, 4, Len(line)) ELSE <<>>

is_diff_header(s) == s # <<>> /\ s[1] = "diff --git "

\* is_prr_directive: Some(d) as <<d>>, None as <<>>
is_prr_directive(s) ==
    LET t == Trim(s) IN
    IF StartsWith(t, <<"@prr", SP>>) THEN <<StripPrefix(t, <<"@prr", SP>>)>>
    ELSE <<>>

\* parse_diff_header: Ok(new) as [ok |-> TRUE, file |-> new]
parse_diff_header(line) ==
    IF DIFF_START(line) # <<>>
    THEN [ok |-> TRUE, file |-> Trim(DIFF_START(line))]
    ELSE [ok |-> FALSE, file |-> NoFile]

\* parse_hunk_start: kind "some" (a pair), "none" (no match) or "panic"
\* (the unreachable!() of a header without right start and a left start # 0)
parse_hunk_start(line) ==
    IF ~HUNK_START(line) THEN [kind |-> "none", l |-> 0, r |-> 0]
    ELSE LET hunk_start_line_left == ParseU64(line[2]) IN
         IF HunkWithRStart(line)
         THEN [kind |-> "some", l |-> hunk_start_line_left,
               r |-> ParseU64(line[6])]
         ELSE IF hunk_start_line_left = 0
              THEN [kind |-> "some", l |-> 0, r |-> 0]
              ELSE [kind |-> "panic", l |-> 0, r |-> 0]

is_left_line(line) == line # <<>> /\ line[1] = "-"

is_add_line(line) == line # <<>> /\ line[1] = "+"

get_next_lines(line, left, right) ==
    IF is_left_line(line) THEN <<left + 1, right>>
    ELSE IF is_add_line(line) THEN <<left, right + 1>>
    ELSE <<left + 1, right + 1>>

\* LineLocation of a line at the given counters
LocOf(line, left, right) ==
    IF is_left_line(line) THEN Left(left) ELSE Right(right)

----------------------------------------------------------------------------
\* parser.rs: ReviewParser

\* ReviewParser::new
ReviewParserNew == StartState

\* the quote handling at the head of parse_line
is_quoted(raw) == raw # <<>> /\ raw[1] = ">"
Unquote(raw) ==
    IF is_quoted(raw)
    THEN IF StartsWith(raw, <<">", SP>>) THEN StripPrefix(raw, <<">", SP>>)
         ELSE StripPrefix(raw, <<">">>)
    ELSE raw

Step(st, r) == [state |-> st, ret |-> r]

\* comment.join("\n").trim_end()
InlineText(comment) == TrimEnd(JoinNL(comment))

\* the FileDiffState a hunk header yields
HunkFileDiff(file, h, line) ==
    LET left_start == SaturatingSub1(h.l)
        right_start == SaturatingSub1(h.r)
    IN FileDiffState(file, left_start, right_start,
                     LocOf(line, left_start, right_start), NoLoc)

\* the FileDiffState after a content line; span is the new span_start_line
ContentFileDiff(fds, line, span) ==
    LET next == get_next_lines(line, fds.left_line, fds.right_line) IN
    FileDiffState(fds.file, next[1], next[2],
                  LocOf(line, next[1], next[2]), span)

\* parse_line, State::Start, were an unknown directive kept as comment text
ParseStartLenient(st, quoted, line) ==
    IF quoted
    THEN IF ~is_diff_header(line) THEN Step(st, RetErr("expected diff header"))
         ELSE LET review_comment ==
                      IF st.comment # <<>>
                      THEN RetReview(Trim(JoinNL(st.comment))) ELSE RetNone
                  hdr == parse_diff_header(line)
              IN IF ~hdr.ok THEN Step(st, RetErr("invalid diff header"))
                 ELSE Step(FilePreambleState(hdr.file), review_comment)
    ELSE IF  /\ is_prr_directive(line) # <<>>
             /\ is_prr_directive(line)[1]
                    \in {<<"approve">>, <<"reject">>, <<"comment">>}
    THEN LET d == is_prr_directive(line)[1] IN
         IF d = <<"approve">> THEN Step(st, RetAction("Approve"))
         ELSE IF d = <<"reject">> THEN Step(st, RetAction("RequestChanges"))
         ELSE Step(st, RetAction("Comment"))
    ELSE IF st.comment # <<>> \/ Trim(line) # <<>>
    THEN Step([st EXCEPT !.comment = Append(@, line)], RetNone)
    ELSE Step(st, RetNone)

\* parse_line, State::Start, were the parser to stay in Start at the header
ParseStartStays(st, quoted, line) ==
    IF quoted
    THEN IF ~is_diff_header(line) THEN Step(st, RetErr("expected diff header"))
         ELSE LET review_comment ==
                      IF st.comment # <<>>
                      THEN RetReview(Trim(JoinNL(st.comment))) ELSE RetNone
                  hdr == parse_diff_header(line)
              IN IF ~hdr.ok THEN Step(st, RetErr("invalid diff header"))
                 ELSE Step(st, review_comment)
    ELSE IF is_prr_directive(line) # <<>>
    THEN LET d == is_prr_directive(line)[1] IN
         IF d = <<"approve">> THEN Step(st, RetAction("Approve"))
         ELSE IF d = <<"reject">> THEN Step(st, RetAction("RequestChanges"))
         ELSE IF d = <<"comment">> THEN Step(st, RetAction("Comment"))
         ELSE Step(st, RetErr("unknown directive"))
    ELSE IF st.comment # <<>> \/ Trim(line) # <<>>
    THEN Step([st EXCEPT !.comment = Append(@, line)], RetNone)
    ELSE Step(st, RetNone)

\* parse_line, State::Start, were quoted lines before the diff header skipped
ParseStartSkipsQuoted(st, quoted, line) ==
    IF quoted
    THEN IF ~is_diff_header(line) THEN Step(st, RetNone)
         ELSE LET review_comment ==
                      IF st.comment # <<>>
                      THEN RetReview(Trim(JoinNL(st.comment))) ELSE RetNone
                  hdr == parse_diff_header(line)
              IN IF ~hdr.ok THEN Step(st, RetNone)
                 ELSE Step(FilePreambleState(hdr.file), review_comment)
    ELSE IF is_prr_directive(line) # <<>>
    THEN LET d == is_prr_directive(line)[1] IN
         IF d = <<"approve">> THEN Step(st, RetAction("Approve"))
         ELSE IF d = <<"reject">> THEN Step(st, RetAction("RequestChanges"))
         ELSE IF d = <<"comment">> THEN Step(st, RetAction("Comment"))
         ELSE Step(st, RetErr("unknown directive"))
    ELSE IF st.comment # <<>> \/ Trim(line) # <<>>
    THEN Step([st EXCEPT !.comment = Append(@, line)], RetNone)
    ELSE Step(st, RetNone)

\* parse_line, State::Start, were a directive also kept as comment text
ParseStartKeepsDirective(st, quoted, line) ==
    IF quoted
    THEN IF ~is_diff_header(line) THEN Step(st, RetErr("expected diff header"))
         ELSE LET review_comment ==
                      IF st.comment # <<>>
                      THEN RetReview(Trim(JoinNL(st.comment))) ELSE RetNone
                  hdr == parse_diff_header(line)
              IN IF ~hdr.ok THEN Step(st, RetErr("invalid diff header"))
                 ELSE Step(FilePreambleState(hdr.file), review_comment)
    ELSE IF is_prr_directive(line) # <<>>
    THEN LET d == is_prr_directive(line)[1]
             kept == [st EXCEPT !.comment = Append(@, line)]
         IN
         IF d = <<"approve">> THEN Step(kept, RetAction("Approve"))
         ELSE IF d = <<"reject">> THEN Step(kept, RetAction("RequestChanges"))
         ELSE IF d = <<"comment">> THEN Step(kept, RetAction("Comment"))
         ELSE Step(st, RetErr("unknown directive"))
    ELSE IF st.comment # <<>> \/ Trim(line) # <<>>
    THEN Step([st EXCEPT !.comment = Append(@, line)], RetNone)
    ELSE Step(st, RetNone)

\* parse_line, State::Start
ParseStart(st, quoted, line) ==
    IF quoted
    THEN IF ~is_diff_header(line) THEN Step(st, RetErr("expected diff header"))
         ELSE LET review_comment ==
                      IF st.comment # <<>>
                      THEN RetReview(Trim(JoinNL(st.comment))) ELSE RetNone
                  hdr == parse_diff_header(line)
              IN IF ~hdr.ok THEN Step(st, RetErr("invalid diff header"))
                 ELSE Step(FilePreambleState(hdr.file), review_comment)
    ELSE IF is_prr_directive(line) # <<>>
    THEN LET d == is_prr_directive(line)[1] IN
         IF d = <<"approve">> THEN Step(st, RetAction("Approve"))
         ELSE IF d = <<"reject">> THEN Step(st, RetAction("RequestChanges"))
         ELSE IF d = <<"comment">> THEN Step(st, RetAction("Comment"))
         ELSE Step(st, RetErr("unknown directive"))
    ELSE IF st.comment # <<>> \/ Trim(line) # <<>>
    THEN Step([st EXCEPT !.comment = Append(@, line)], RetNone)
    ELSE Step(st, RetNone)

\* parse_line, State::FilePreamble, were blank unquoted lines let through
ParseFilePreambleBlank(st, quoted, line) ==
    IF ~quoted /\ Trim(line) # <<>>
    THEN Step(st, RetErr("comment in file preamble"))
    ELSE LET h == parse_hunk_start(line) IN
         IF h.kind = "panic" THEN Step(st, RetPanic)
         ELSE IF h.kind = "some"
         THEN Step(HunkFileDiff(st.file, h, line), RetNone)
         ELSE Step(st, RetNone)

\* parse_line, State::FilePreamble
ParseFilePreamble(st, quoted, line) ==
    IF ~quoted THEN Step(st, RetErr("comment in file preamble"))
    ELSE LET h == parse_hunk_start(line) IN
         IF h.kind = "panic" THEN Step(st, RetPanic)
         ELSE IF h.kind = "some"
         THEN Step(HunkFileDiff(st.file, h, line), RetNone)
         ELSE Step(st, RetNone)

\* parse_line, State::FileDiff, were a blank line to begin a comment
ParseFileDiffBlankBegins(st, quoted, line) ==
    IF quoted
    THEN IF is_diff_header(line)
         THEN IF st.span_start_line # NoLoc
              THEN Step(st, RetErr("unterminated span"))
              ELSE LET hdr == parse_diff_header(line) IN
                   IF ~hdr.ok THEN Step(st, RetErr("invalid diff header"))
                   ELSE Step(FilePreambleState(hdr.file), RetNone)
         ELSE LET h == parse_hunk_start(line) IN
              IF h.kind = "panic" THEN Step(st, RetPanic)
              ELSE IF h.kind = "some"
              THEN IF st.span_start_line # NoLoc
                   THEN Step(st, RetErr("cross chunk span"))
                   ELSE Step(HunkFileDiff(st.file, h, line), RetNone)
              ELSE Step(ContentFileDiff(st, line, st.span_start_line), RetNone)
    ELSE Step(CommentState(st, <<line>>), RetNone)

\* parse_line, State::FileDiff, were a hunk header let through with a span
\* open
ParseFileDiffCrossHunk(st, quoted, line) ==
    IF quoted
    THEN IF is_diff_header(line)
         THEN IF st.span_start_line # NoLoc
              THEN Step(st, RetErr("unterminated span"))
              ELSE LET hdr == parse_diff_header(line) IN
                   IF ~hdr.ok THEN Step(st, RetErr("invalid diff header"))
                   ELSE Step(FilePreambleState(hdr.file), RetNone)
         ELSE LET h == parse_hunk_start(line) IN
              IF h.kind = "panic" THEN Step(st, RetPanic)
              ELSE IF h.kind = "some"
              THEN Step([HunkFileDiff(st.file, h, line)
                            EXCEPT !.span_start_line = st.span_start_line],
                        RetNone)
              ELSE Step(ContentFileDiff(st, line, st.span_start_line), RetNone)
    ELSE IF Trim(line) = <<>>
    THEN Step(SpanStartOrCommentState(st), RetNone)
    ELSE Step(CommentState(st, <<line>>), RetNone)

\* parse_line, State::FileDiff
ParseFileDiff(st, quoted, line) ==
    IF quoted
    THEN IF is_diff_header(line)
         THEN IF st.span_start_line # NoLoc
              THEN Step(st, RetErr("unterminated span"))
              ELSE LET hdr == parse_diff_header(line) IN
                   IF ~hdr.ok THEN Step(st, RetErr("invalid diff header"))
                   ELSE Step(FilePreambleState(hdr.file), RetNone)
         ELSE LET h == parse_hunk_start(line) IN
              IF h.kind = "panic" THEN Step(st, RetPanic)
              ELSE IF h.kind = "some"
              THEN IF st.span_start_line # NoLoc
                   THEN Step(st, RetErr("cross chunk span"))
                   ELSE Step(HunkFileDiff(st.file, h, line), RetNone)
              ELSE Step(ContentFileDiff(st, line, st.span_start_line), RetNone)
    ELSE IF Trim(line) = <<>>
    THEN Step(SpanStartOrCommentState(st), RetNone)
    ELSE Step(CommentState(st, <<line>>), RetNone)

\* parse_line, State::SpanStartOrComment, were the span to start at the
\* location before the counters advance
ParseSpanStartOrCommentStale(st, quoted, line) ==
    IF quoted
    THEN IF st.span_start_line # NoLoc
         THEN Step(st, RetErr("unterminated span"))
         ELSE Step(ContentFileDiff(st, line,
                                   LocOf(line, st.left_line, st.right_line)),
                   RetNone)
    ELSE IF Trim(line) = <<>> THEN Step(st, RetNone)
    ELSE Step(CommentState(st, <<line>>), RetNone)

\* parse_line, State::SpanStartOrComment, were a second span start to replace
\* the open one
ParseSpanStartOrCommentReopen(st, quoted, line) ==
    IF quoted
    THEN LET next == get_next_lines(line, st.left_line, st.right_line) IN
         Step(ContentFileDiff(st, line, LocOf(line, next[1], next[2])),
              RetNone)
    ELSE IF Trim(line) = <<>> THEN Step(st, RetNone)
    ELSE Step(CommentState(st, <<line>>), RetNone)

\* parse_line, State::SpanStartOrComment
ParseSpanStartOrComment(st, quoted, line) ==
    IF quoted
    THEN IF st.span_start_line # NoLoc
         THEN Step(st, RetErr("unterminated span"))
         ELSE LET next == get_next_lines(line, st.left_line, st.right_line) IN
              Step(ContentFileDiff(st, line, LocOf(line, next[1], next[2])),
                   RetNone)
    ELSE IF Trim(line) = <<>> THEN Step(st, RetNone)
    ELSE Step(CommentState(st, <<line>>), RetNone)

\* parse_line, State::Comment, were directives honoured inside a comment
ParseCommentDirective(st, quoted, line) ==
    IF quoted
    THEN LET comment == RetInline(st.file, st.line, st.span_start_line,
                                  InlineText(st.comment))
         IN IF is_diff_header(line)
            THEN LET hdr == parse_diff_header(line) IN
                 IF ~hdr.ok THEN Step(st, RetErr("invalid diff header"))
                 ELSE Step(FilePreambleState(hdr.file), comment)
            ELSE Step(ContentFileDiff(st, line, NoLoc), comment)
    ELSE IF is_prr_directive(line) = << <<"approve">> >>
    THEN Step(st, RetAction("Approve"))
    ELSE Step([st EXCEPT !.comment = Append(@, line)], RetNone)

\* parse_line, State::Comment, were the span kept after the comment
ParseCommentKeepsSpan(st, quoted, line) ==
    IF quoted
    THEN LET comment == RetInline(st.file, st.line, st.span_start_line,
                                  InlineText(st.comment))
         IN IF is_diff_header(line)
            THEN LET hdr == parse_diff_header(line) IN
                 IF ~hdr.ok THEN Step(st, RetErr("invalid diff header"))
                 ELSE Step(FilePreambleState(hdr.file), comment)
            ELSE Step(ContentFileDiff(st, line, st.span_start_line), comment)
    ELSE Step([st EXCEPT !.comment = Append(@, line)], RetNone)

\* parse_line, State::Comment
ParseComment(st, quoted, line) ==
    IF quoted
    THEN LET comment == RetInline(st.file, st.line, st.span_start_line,
                                  InlineText(st.comment))
         IN IF is_diff_header(line)
            THEN LET hdr == parse_diff_header(line) IN
                 IF ~hdr.ok THEN Step(st, RetErr("invalid diff header"))
                 ELSE Step(FilePreambleState(hdr.file), comment)
            ELSE Step(ContentFileDiff(st, line, NoLoc), comment)
    ELSE Step([st EXCEPT !.comment = Append(@, line)], RetNone)

\* ReviewParser::parse_line
parse_line(st, raw) ==
    LET quoted == is_quoted(raw)
        line == Unquote(raw)
    IN CASE st.tag = "Start" -> ParseStart(st, quoted, line)
         [] st.tag = "FilePreamble" -> ParseFilePreamble(st, quoted, line)
         [] st.tag = "FileDiff" -> ParseFileDiff(st, quoted, line)
         [] st.tag = "SpanStartOrComment" ->
                ParseSpanStartOrComment(st, quoted, line)
         [] st.tag = "Comment" -> ParseComment(st, quoted, line)

\* ReviewParser::finish, were the trailing comment to lose its span
finishWithoutSpan(st) ==
    IF st.tag = "Comment"
    THEN RetInline(st.file, st.line, NoLoc, InlineText(st.comment))
    ELSE RetNone

\* ReviewParser::finish
finish(st) ==
    IF st.tag = "Comment"
    THEN RetInline(st.file, st.line, st.span_start_line, InlineText(st.comment))
    ELSE RetNone

----------------------------------------------------------------------------
\* review.rs: line classification, quoting, snip resolution, validation

QuotePrefix == <<">", SP>>

\* SNIP_VARIANTS
SNIP_VARIANTS == { <<"[..]">>, <<"[...]">> }

\* enum LineType
Quoted(text) == [type |-> "Quoted", text |-> text]
Snip == [type |-> "Snip", text |-> <<>>]
Comment(line) == [type |-> "Comment", text |-> line]

\* impl From<&str> for LineType
LineTypeFrom(line) ==
    IF StartsWith(line, QuotePrefix) THEN Quoted(StripPrefix(line, QuotePrefix))
    ELSE IF Trim(line) \in SNIP_VARIANTS THEN Snip
    ELSE Comment(line)

\* prefix_lines
RECURSIVE PrefixEach(_, _)
PrefixEach(ls, prefix) ==
    IF ls = <<>> THEN <<>>
    ELSE (IF ls[1] = <<>> THEN prefix
          ELSE prefix \o <<SP>> \o ls[1] \o <<NL>>)
         \o PrefixEach(Tail(ls), prefix)
prefix_lines(s, prefix) == PrefixEach(Lines(s), prefix)

\* format!("> {line}") over a slice
RECURSIVE QuoteAll(_)
QuoteAll(ls) ==
    IF ls = <<>> THEN <<>> ELSE <<QuotePrefix \o ls[1]>> \o QuoteAll(Tail(ls))

\* contents.lines().map(LineType::from).collect()
RECURSIVE Classify(_)
Classify(ls) ==
    IF ls = <<>> THEN <<>> ELSE <<LineTypeFrom(ls[1])>> \o Classify(Tail(ls))

NoneLines == [some |-> FALSE, lines |-> <<>>]
SomeLines(ls) == [some |-> TRUE, lines |-> ls]

\* resolve_snips_recurse: SnipLoop is the while loop at the cursors
\* (pattern_idx, text_idx), 1-based, SnipCandidates the for loop of a Snip
\* from candidate cand_text_idx on
RECURSIVE resolve_snips_recurse(_, _), SnipLoop(_, _, _, _, _),
          SnipCandidates(_, _, _, _, _, _)
\* SnipCandidates with the candidate range ending before text.len()
SnipCandidatesExclusive(pattern, text, pattern_idx, text_idx, cand_text_idx, resolved) ==
    IF cand_text_idx > Len(text) THEN NoneLines
    ELSE LET r == resolve_snips_recurse(
                      SubSeq(pattern, pattern_idx + 1, Len(pattern)),
                      SubSeq(text, cand_text_idx, Len(text)))
         IN IF r.some
            THEN SomeLines(resolved
                           \o QuoteAll(SubSeq(text, text_idx, cand_text_idx - 1))
                           \o r.lines)
            ELSE SnipCandidates(pattern, text, pattern_idx, text_idx,
                                cand_text_idx + 1, resolved)

\* SnipCandidates without the skipped lines in the output
SnipCandidatesDropSkipped(pattern, text, pattern_idx, text_idx, cand_text_idx, resolved) ==
    IF cand_text_idx > Len(text) + 1 THEN NoneLines
    ELSE LET r == resolve_snips_recurse(
                      SubSeq(pattern, pattern_idx + 1, Len(pattern)),
                      SubSeq(text, cand_text_idx, Len(text)))
         IN IF r.some
            THEN SomeLines(resolved \o r.lines)
            ELSE SnipCandidates(pattern, text, pattern_idx, text_idx,
                                cand_text_idx + 1, resolved)

\* SnipCandidates trying the longest candidate first
RECURSIVE SnipCandidatesDown(_, _, _, _, _, _)
SnipCandidatesDown(pattern, text, pattern_idx, text_idx, cand_text_idx, resolved) ==
    IF cand_text_idx < text_idx THEN NoneLines
    ELSE LET r == resolve_snips_recurse(
                      SubSeq(pattern, pattern_idx + 1, Len(pattern)),
                      SubSeq(text, cand_text_idx, Len(text)))
         IN IF r.some
            THEN SomeLines(resolved
                           \o QuoteAll(SubSeq(text, text_idx, cand_text_idx - 1))
                           \o r.lines)
            ELSE SnipCandidatesDown(pattern, text, pattern_idx, text_idx,
                                    cand_text_idx - 1, resolved)
SnipCandidatesLongestFirst(pattern, text, pattern_idx, text_idx, cand_text_idx, resolved) ==
    SnipCandidatesDown(pattern, text, pattern_idx, text_idx, Len(text) + 1,
                       resolved)

SnipCandidates(pattern, text, pattern_idx, text_idx, cand_text_idx, resolved) ==
    IF cand_text_idx > Len(text) + 1 THEN NoneLines
    ELSE LET cand_pattern == SubSeq(pattern, pattern_idx + 1, Len(pattern))
             cand_text == SubSeq(text, cand_text_idx, Len(text))
             r == resolve_snips_recurse(cand_pattern, cand_text)
         IN IF r.some
            THEN SomeLines(resolved
                           \o QuoteAll(SubSeq(text, text_idx, cand_text_idx - 1))
                           \o r.lines)
            ELSE SnipCandidates(pattern, text, pattern_idx, text_idx,
                                cand_text_idx + 1, resolved)
\* SnipLoop whose loop ends with the pattern, whatever text is left
SnipLoopIgnoresLeftover(pattern, text, pattern_idx, text_idx, resolved) ==
    IF ~(pattern_idx <= Len(pattern))
    THEN SomeLines(resolved)
    ELSE LET p == pattern[pattern_idx] IN
         IF p.type = "Quoted"
         THEN IF text_idx <= Len(text) /\ text[text_idx] = p.text
              THEN SnipLoop(pattern, text, pattern_idx + 1, text_idx + 1,
                            Append(resolved, QuotePrefix \o p.text))
              ELSE NoneLines
         ELSE IF p.type = "Comment"
         THEN SnipLoop(pattern, text, pattern_idx + 1, text_idx,
                       Append(resolved, p.text))
         ELSE SnipCandidates(pattern, text, pattern_idx, text_idx, text_idx,
                             resolved)

\* SnipLoop in which a comment line stands for an original line
SnipLoopCommentConsumes(pattern, text, pattern_idx, text_idx, resolved) ==
    IF ~(pattern_idx <= Len(pattern) \/ text_idx <= Len(text))
    THEN SomeLines(resolved)
    ELSE IF pattern_idx <= Len(pattern)
    THEN LET p == pattern[pattern_idx] IN
         IF p.type = "Quoted"
         THEN IF text_idx <= Len(text) /\ text[text_idx] = p.text
              THEN SnipLoop(pattern, text, pattern_idx + 1, text_idx + 1,
                            Append(resolved, QuotePrefix \o p.text))
              ELSE NoneLines
         ELSE IF p.type = "Comment"
         THEN SnipLoop(pattern, text, pattern_idx + 1, text_idx + 1,
                       Append(resolved, p.text))
         ELSE SnipCandidates(pattern, text, pattern_idx, text_idx, text_idx,
                             resolved)
    ELSE NoneLines

SnipLoop(pattern, text, pattern_idx, text_idx, resolved) ==
    IF ~(pattern_idx <= Len(pattern) \/ text_idx <= Len(text))
    THEN SomeLines(resolved)
    ELSE IF pattern_idx <= Len(pattern)
    THEN LET p == pattern[pattern_idx] IN
         IF p.type = "Quoted"
         THEN IF text_idx <= Len(text) /\ text[text_idx] = p.text
              THEN SnipLoop(pattern, text, pattern_idx + 1, text_idx + 1,
                            Append(resolved, QuotePrefix \o p.text))
              ELSE NoneLines
         ELSE IF p.type = "Comment"
         THEN SnipLoop(pattern, text, pattern_idx + 1, text_idx,
                       Append(resolved, p.text))
         ELSE SnipCandidates(pattern, text, pattern_idx, text_idx, text_idx,
                             resolved)
    ELSE NoneLines
resolve_snips_recurse(pattern, text) == SnipLoop(pattern, text, 1, 1, <<>>)

\* Review::resolve_snips, original being self.metadata()?.original
resolve_snips(cont, orig) ==
    LET pattern == Classify(Lines(cont))
        text == Lines(orig)
        r == resolve_snips_recurse(pattern, text)
    IN IF r.some THEN [ok |-> TRUE, text |-> Unlines(r.lines)]
       ELSE [ok |-> FALSE, text |-> <<>>]

RECURSIVE Reconstruct(_)
\* the reconstruction loop, were the quoted text pushed as it is written
ReconstructUntrimmed(ls) ==
    IF ls = <<>> THEN <<>>
    ELSE (IF StartsWith(ls[1], QuotePrefix)
          THEN StripPrefix(ls[1], QuotePrefix) \o <<NL>> ELSE <<>>)
         \o (IF ls[1] = <<">">> THEN <<NL>> ELSE <<>>)
         \o Reconstruct(Tail(ls))

\* the reconstruction loop of validate_review_file
Reconstruct(ls) ==
    IF ls = <<>> THEN <<>>
    ELSE (IF StartsWith(ls[1], QuotePrefix)
          THEN TrimEnd(StripPrefix(ls[1], QuotePrefix)) \o <<NL>> ELSE <<>>)
         \o (IF ls[1] = <<">">> THEN <<NL>> ELSE <<>>)
         \o Reconstruct(Tail(ls))

\* original.lines().map(|line| line.trim_end() + "\n").collect()
RECURSIVE TrimmedOriginal(_)
TrimmedOriginal(ls) ==
    IF ls = <<>> THEN <<>>
    ELSE TrimEnd(ls[1]) \o <<NL>> \o TrimmedOriginal(Tail(ls))

\* the first index of the zip at which the two differ, 0 when there is none
RECURSIVE FirstMismatch(_, _, _)
FirstMismatch(ls, rs, i) ==
    IF i > Len(ls) \/ i > Len(rs) THEN 0
    ELSE IF ls[i] # rs[i] THEN i ELSE FirstMismatch(ls, rs, i + 1)

\* contents.lines().take(idx).filter(|l| !l.starts_with('>')).count()
RECURSIVE UserLinesUpTo(_, _)
UserLinesUpTo(ls, idx) ==
    IF idx = 0 \/ ls = <<>> THEN 0
    ELSE (IF is_quoted(ls[1]) THEN 0 ELSE 1) + UserLinesUpTo(Tail(ls), idx - 1)

\* Review::validate_review_file: ok, or the line number of the error message
\* (0 for "found trailing or truncated lines")
validate_review_file(cont, orig) ==
    LET reconstructed == Reconstruct(Lines(cont))
        trimmed == TrimmedOriginal(Lines(orig))
        m == FirstMismatch(Lines(reconstructed), Lines(trimmed), 1)
    IN IF reconstructed = trimmed THEN [ok |-> TRUE, line |-> 0]
       ELSE IF m # 0
       THEN [ok |-> FALSE, line |-> m + UserLinesUpTo(Lines(cont), m - 1)]
       ELSE [ok |-> FALSE, line |-> 0]

----------------------------------------------------------------------------
\* The parser fed a review file line by line (Review::comments, lines 316-348
\* of review.rs: parse_line per line, stop at the first error, then finish)

Q(l) == <<">", SP>> \o l

DiffHeader(f) == <<"diff --git ", "a/x", " b/", f>>
Hunk(l, r) == <<"@@ -", l, ",", "2", " +", r, ",", "2", " @@">>
\* a header whose right side is one number, as git writes a length of 1
HunkShort(l) == <<"@@ -", l, ",", "2", " +", "1", " @@">>

\* lines of a git diff
DiffLines ==
    { DiffHeader("f"), DiffHeader("g"),
      Hunk("1", "1"), Hunk("3", "5"), HunkShort("0"), HunkShort("1"),
      <<"+", "a">>, <<"-", "a">>, <<SP, "a">> }

\* lines as Review::new writes them: "> " + line, and for an empty diff line
\* a ">" that runs into the next line or ends the file
QuotedDiffLines ==
    { Q(d) : d \in DiffLines } \cup { <<">">>, <<">", ">", SP, "+", "a">> }

\* lines a user writes
UserLines ==
    { <<>>, <<SP>>, <<"c">>, <<"@prr", SP, "zzz">>,
      <<"@prr", SP, "approve">>, <<"@prr", SP, "reject">>,
      <<SP, "@prr", SP, "comment", SP>> }

InputLines == QuotedDiffLines \cup UserLines \cup { Q(<<"diff --git ", "zzz">>) }

FinPending == MkRet("Pending", NoFile, NoLoc, NoLoc, <<>>, "")

Halted == ret.kind \in {"Err", "Panic"} \/ fin # FinPending

IsQuotedDiffHeader(raw) == is_quoted(raw) /\ DIFF_START(Unquote(raw)) # <<>>
IsQuotedHunkHeader(raw) == is_quoted(raw) /\ HUNK_START(Unquote(raw))
DeclaredL(raw) == ParseU64(Unquote(raw)[2])
DeclaredR(raw) ==
    IF HunkWithRStart(Unquote(raw)) THEN ParseU64(Unquote(raw)[6]) ELSE 0

\* the history of the input after one more line
Observe(raw) ==
    /\ nlines' = nlines + 1
    /\ lastLine' = raw
    /\ unedited' = (/\ unedited
                    /\ raw \in QuotedDiffLines
                    /\ nlines = 0 => IsQuotedDiffHeader(raw))
    /\ prevFile' = lastFile
    /\ lastFile' = IF IsQuotedDiffHeader(raw)
                   THEN Trim(DIFF_START(Unquote(raw))) ELSE lastFile
    /\ IF IsQuotedDiffHeader(raw)
       THEN /\ inHunk' = FALSE
            /\ hunkL' = 0 /\ hunkR' = 0
            /\ nDel' = 0 /\ nAdd' = 0 /\ nCtx' = 0 /\ lastDel' = "none"
       ELSE IF IsQuotedHunkHeader(raw) /\ lastFile # NoFile
       THEN /\ inHunk' = TRUE
            /\ hunkL' = DeclaredL(raw) /\ hunkR' = DeclaredR(raw)
            /\ nDel' = 0 /\ nAdd' = 0 /\ nCtx' = 0 /\ lastDel' = "none"
       ELSE IF is_quoted(raw) /\ inHunk
       THEN /\ UNCHANGED <<inHunk, hunkL, hunkR>>
            /\ nDel' = nDel + (IF is_left_line(Unquote(raw)) THEN 1 ELSE 0)
            /\ nAdd' = nAdd + (IF is_add_line(Unquote(raw)) THEN 1 ELSE 0)
            /\ nCtx' = nCtx + (IF  \/ is_left_line(Unquote(raw))
                                   \/ is_add_line(Unquote(raw))
                               THEN 0 ELSE 1)
            /\ lastDel' = IF is_left_line(Unquote(raw)) THEN "del" ELSE "other"
       ELSE UNCHANGED <<inHunk, hunkL, hunkR, nDel, nAdd, nCtx, lastDel>>

NoComment == [file |-> NoFile, line |-> NoLoc, start_line |-> NoLoc]

\* a blank unquoted line directly after a quoted line of a hunk came last
AfterBlank == state.tag = "SpanStartOrComment"

\* the history of spans and comments after one more line, which took the
\* parser to state st and made parse_line return r
ObserveSpan(raw, st, r) ==
    LET failed == r.kind \in {"Err", "Panic"}
        line == Unquote(raw)
        opens == AfterBlank /\ is_quoted(raw) /\ openSpan = NoLoc
        header == IsQuotedDiffHeader(raw) \/ IsQuotedHunkHeader(raw)
    IN
    /\ prev' = state
    /\ hunkNo' = IF header /\ ~failed THEN hunkNo + 1 ELSE hunkNo
    /\ spanHunk' = IF opens THEN hunkNo' ELSE spanHunk
    /\ openSpan' =
          IF r.kind = "Inline" THEN NoLoc
          ELSE IF opens
          THEN IF is_left_line(line) THEN Left(state.left_line + 1)
               ELSE Right(state.right_line + 1)
          ELSE openSpan
    /\ lastQuoted' =
          IF is_quoted(raw) /\ ~failed
          THEN IF st.tag = "FileDiff"
               THEN LocOf(line, st.left_line, st.right_line) ELSE NoLoc
          ELSE lastQuoted
    /\ IF st.tag = "Comment" /\ state.tag # "Comment"
       THEN /\ commentAt' = [line |-> lastQuoted, start_line |-> openSpan,
                             hunk |-> hunkNo, start_hunk |-> spanHunk]
            /\ captured' = [file |-> state.file, line |-> state.line,
                            start_line |-> state.span_start_line]
       ELSE UNCHANGED <<commentAt, captured>>

\* one parse_line call in the given state of the parser
ParseLineIn(tag) ==
    /\ ~Halted
    /\ nlines < MaxLines
    /\ state.tag = tag
    /\ \E raw \in InputLines :
          LET r == parse_line(state, raw) IN
          /\ state' = r.state
          /\ ret' = r.ret
          /\ Observe(raw)
          /\ ObserveSpan(raw, r.state, r.ret)
    /\ UNCHANGED <<fin, reviewVars>>

StartLine == ParseLineIn("Start")
FilePreambleLine == ParseLineIn("FilePreamble")
FileDiffLine == ParseLineIn("FileDiff")
SpanStartOrCommentLine == ParseLineIn("SpanStartOrComment")
CommentLine == ParseLineIn("Comment")

\* end of input
Finish ==
    /\ ~Halted
    /\ fin' = finish(state)
    /\ UNCHANGED <<state, ret, nlines, lastLine, unedited, lastFile, prevFile,
                   inHunk, hunkL, hunkR, nDel, nAdd, nCtx, lastDel,
                   prev, openSpan, hunkNo, spanHunk, lastQuoted, commentAt,
                   captured, reviewVars>>

NotResolved == [ok |-> FALSE, text |-> <<>>]
NotValidated == [ok |-> FALSE, line |-> 0]

\* what an operation on a review returns: Ok, Err, Panic or, for status, the
\* ReviewStatus; comments() also returns the action and the comments
Out(kind) ==
    [kind |-> kind, action |-> "", review_comment |-> <<>>,
     inline_comments |-> <<>>]

NoOp ==
    [name |-> "none", force |-> FALSE, diff |-> <<>>, commit |-> "",
     out |-> Out("Ok")]
OnDisk(ph, orig, cont, sub, cid) ==
    [phase |-> ph, original |-> orig, contents |-> cont, submitted |-> sub,
     commit_id |-> cid]

\* no call of resolve_snips_recurse in progress
NoRun == [pattern |-> <<>>, text |-> <<>>, stack |-> <<>>, result |-> "Pending"]

\* no operation made yet
LifeIdle ==
    /\ submitted = <<>> /\ commit_id = <<>> /\ nEdits = 0
    /\ run = NoRun
    /\ op = NoOp
    /\ pre = OnDisk("none", <<>>, <<>>, <<>>, <<>>)

\* no review on disk
ReviewIdle ==
    /\ original = <<>> /\ contents = <<>> /\ phase = "none"
    /\ snipOut = NotResolved /\ validOut = NotValidated
    /\ LifeIdle

ParserInit ==
    /\ state = ReviewParserNew
    /\ ret = RetNone
    /\ fin = FinPending
    /\ nlines = 0
    /\ lastLine = <<>>
    /\ unedited = TRUE
    /\ lastFile = NoFile /\ prevFile = NoFile
    /\ inHunk = FALSE /\ hunkL = 0 /\ hunkR = 0
    /\ nDel = 0 /\ nAdd = 0 /\ nCtx = 0 /\ lastDel = "none"
    /\ prev = ReviewParserNew
    /\ openSpan = NoLoc /\ lastQuoted = NoLoc
    /\ hunkNo = 0 /\ spanHunk = 0
    /\ commentAt = [line |-> NoLoc, start_line |-> NoLoc,
                    hunk |-> 0, start_hunk |-> 0]
    /\ captured = NoComment

Init == ParserInit /\ ReviewIdle

Next ==
    \/ StartLine
    \/ FilePreambleLine
    \/ FileDiffLine
    \/ SpanStartOrCommentLine
    \/ CommentLine
    \/ Finish

Spec == Init /\ [][Next]_vars

----------------------------------------------------------------------------
\* Snip resolution of an edited review file against the stored original
\* (Review::comments, lines 312-314 of review.rs)

SeqsUpTo(S, n) == UNION { [1..k -> S] : k \in 0..n }

\* lines of the original diff
TextLines == { <<"a">>, <<>> }

\* lines of an edited review file: quoted lines, the two elision markers (one
\* with surrounding blanks), a comment, and a ">" that no blank follows
PatLines ==
    { QuotePrefix \o l : l \in TextLines }
    \cup { <<"[...]">>, <<SP, "[..]", SP>>, <<"c">>, <<">">> }

SnipInit ==
    /\ ParserInit
    /\ original \in { Unlines(t) : t \in SeqsUpTo(TextLines, MaxText) }
    /\ contents \in { Unlines(p) : p \in SeqsUpTo(PatLines, MaxPat) }
    /\ phase = "edited"
    /\ snipOut = NotResolved
    /\ validOut = NotValidated
    /\ LifeIdle

\* let contents = self.resolve_snips(&raw)?
ResolveSnips ==
    /\ phase = "edited"
    /\ snipOut' = resolve_snips(contents, original)
    /\ phase' = "resolved"
    /\ UNCHANGED <<original, contents, validOut, lifeVars, parserVars>>

\* self.validate_review_file(&contents)?
ValidateResolved ==
    /\ phase = "resolved"
    /\ snipOut.ok
    /\ validOut' = validate_review_file(snipOut.text, original)
    /\ phase' = "validated"
    /\ UNCHANGED <<original, contents, snipOut, lifeVars, parserVars>>

SnipNext == ResolveSnips \/ ValidateResolved

SnipSpec == SnipInit /\ [][SnipNext]_vars

----------------------------------------------------------------------------
\* Creation of a review in an empty workdir, then validation of the file
\* as written (Review::new, Review::validate_review_file)

\* lines of a diff handed to Review::new
NewDiffLines == { <<"a">>, <<"a", SP>>, <<>>, <<SP>> }

\* diffs with and without a final newline
NewDiffs ==
    { Unlines(d) : d \in SeqsUpTo(NewDiffLines, MaxDiff) }
    \cup { JoinNL(d) : d \in SeqsUpTo(NewDiffLines, MaxDiff) }

\* Review::new where no metadata exists (has_metadata() is false)
Create ==
    /\ phase = "none"
    /\ \E diff \in NewDiffs :
          /\ contents' = prefix_lines(diff, <<">">>)
          /\ original' = diff
    /\ phase' = "created"
    /\ UNCHANGED <<snipOut, validOut, lifeVars, parserVars>>

\* validate_review_file on the file as created
ValidateCreated ==
    /\ phase = "created"
    /\ validOut' = validate_review_file(contents, original)
    /\ phase' = "validated"
    /\ UNCHANGED <<original, contents, snipOut, lifeVars, parserVars>>

CreateNext == Create \/ ValidateCreated

CreateSpec == Init /\ [][CreateNext]_vars

----------------------------------------------------------------------------
\* The life of one review: Review::new, the user's edits of the review file,
\* comments, status, mark_submitted and remove (review.rs)

\* Review::comments once the file is resolved and validated: the lines fed to
\* a parser, the comments collected into acc.  ParseLine is one turn of the
\* loop on the result r of parse_line, with the lines left and acc so far.
RECURSIVE ParseLines(_, _, _)
ParseLine(r, rest, acc) ==
    CASE r.ret.kind = "Err" -> Out("Err")
      [] r.ret.kind = "Panic" -> Out("Panic")
      [] r.ret.kind = "Review" ->
           IF acc.review_comment # <<>> THEN Out("Err")
           ELSE ParseLines(r.state, rest,
                           [acc EXCEPT !.review_comment = r.ret.text])
      [] r.ret.kind = "Inline" ->
           ParseLines(r.state, rest,
                      [acc EXCEPT !.inline_comments = Append(@, r.ret)])
      [] r.ret.kind = "ReviewAction" ->
           ParseLines(r.state, rest, [acc EXCEPT !.action = r.ret.action])
      [] OTHER -> ParseLines(r.state, rest, acc)

ParseLines(st, lines, acc) ==
    IF lines = <<>>
    THEN LET f == finish(st) IN
         IF f.kind = "Inline"
         THEN [acc EXCEPT !.inline_comments = Append(@, f)]
         ELSE acc
    ELSE CHOOSE out \in { ParseLine(r, rest, a) :
                              r \in {parse_line(st, Head(lines))},
                              rest \in {Tail(lines)},
                              a \in {acc} } : TRUE

\* Review::comments for the review on disk d
comments(d) ==
    IF d.phase = "none" THEN Out("Err")
    ELSE LET resolved == resolve_snips(d.contents, d.original) IN
         IF ~resolved.ok THEN Out("Err")
         ELSE IF ~validate_review_file(resolved.text, d.original).ok
         THEN Out("Err")
         ELSE ParseLines(ReviewParserNew, Lines(resolved.text),
                         [Out("Ok") EXCEPT !.action = "Comment"])

\* Review::reviewed, were the review comment left out of account
reviewedInlineOnly(c) == c.inline_comments # <<>>

\* Review::reviewed on the result of comments(); the parser yields no
\* file-level comments
reviewed(c) == c.review_comment # <<>> \/ c.inline_comments # <<>>

\* Review::status
status(d) ==
    IF d.phase = "none" THEN Out("Err")
    ELSE LET c == comments(d) IN
         IF c.kind # "Ok" THEN Out(c.kind)
         ELSE IF d.submitted # <<>> THEN Out("Submitted")
         ELSE IF reviewed(c) THEN Out("Reviewed")
         ELSE Out("New")

\* Review::has_metadata
has_metadata(d) == d.phase # "none"

\* pull requests handed to Review::new: the diff (one file, one hunk, one
\* line) and the commit id
Pulls ==
    { [diff |-> Unlines(<<DiffHeader("f"), Hunk("1", "1"), <<"+", "a">>>>),
       commit |-> "c1"],
      [diff |-> Unlines(<<DiffHeader("g"), HunkShort("0"), <<"-", "a">>>>),
       commit |-> "c2"] }

\* seconds since the epoch at a submission
Epochs == {1}

\* lines a user adds to a review file: a comment, a directive
EditLines == { <<"c">>, <<"@prr", SP, "approve">> }

InsertAt(ls, i, l) == SubSeq(ls, 1, i) \o <<l>> \o SubSeq(ls, i + 1, Len(ls))
DeleteAt(ls, i) == SubSeq(ls, 1, i - 1) \o SubSeq(ls, i + 1, Len(ls))

\* the review on disk
Disk == OnDisk(phase, original, contents, submitted, commit_id)

Call(name, force, diff, commit, out) ==
    [name |-> name, force |-> force, diff |-> diff, commit |-> commit,
     out |-> out]

IdleCalls == UNCHANGED <<snipOut, validOut, parserVars, run>>

\* Review::new, were the files written before the check for unsubmitted
\* changes
ReviewNewWritesFirst ==
    LET current == status(Disk) IN
    \E pull \in Pulls, force \in BOOLEAN :
       LET st == IF ~force /\ has_metadata(Disk) THEN current ELSE Out("New")
           out == IF st.kind = "Reviewed" THEN Out("Refused")
                  ELSE IF st.kind \in {"Err", "Panic"} THEN st
                  ELSE Out("Ok")
       IN
       /\ op' = Call("create", force, pull.diff, pull.commit, out)
       /\ pre' = Disk
       /\ contents' = prefix_lines(pull.diff, <<">">>)
       /\ original' = pull.diff
       /\ submitted' = <<>>
       /\ commit_id' = <<pull.commit>>
       /\ phase' = "onDisk"
       /\ nEdits' = 0
       /\ IdleCalls

\* Review::new
ReviewNew ==
    LET current == status(Disk) IN
    \E pull \in Pulls, force \in BOOLEAN :
       LET st == IF ~force /\ has_metadata(Disk) THEN current ELSE Out("New")
           out == IF st.kind = "Reviewed" THEN Out("Refused")
                  ELSE IF st.kind \in {"Err", "Panic"} THEN st
                  ELSE Out("Ok")
       IN
       /\ op' = Call("create", force, pull.diff, pull.commit, out)
       /\ pre' = Disk
       /\ IF out.kind = "Ok"
          THEN /\ contents' = prefix_lines(pull.diff, <<">">>)
               /\ original' = pull.diff
               /\ submitted' = <<>>
               /\ commit_id' = <<pull.commit>>
               /\ phase' = "onDisk"
               /\ nEdits' = 0
          ELSE UNCHANGED <<contents, original, submitted, commit_id, phase,
                           nEdits>>
       /\ IdleCalls

\* the user saves the review file with a line added or a line deleted
UserEdit ==
    /\ phase = "onDisk"
    /\ nEdits < MaxEdits
    /\ LET ls == Lines(contents) IN
       \/ \E i \in 0..Len(ls), l \in EditLines :
             contents' = Unlines(InsertAt(ls, i, l))
       \/ \E i \in 1..Len(ls) : contents' = Unlines(DeleteAt(ls, i))
    /\ nEdits' = nEdits + 1
    /\ op' = Call("edit", FALSE, <<>>, "", Out("Ok"))
    /\ pre' = Disk
    /\ UNCHANGED <<original, submitted, commit_id, phase>>
    /\ IdleCalls

\* Review::comments
Comments ==
    /\ op' = Call("comments", FALSE, <<>>, "", comments(Disk))
    /\ pre' = Disk
    /\ UNCHANGED <<contents, original, submitted, commit_id, phase, nEdits>>
    /\ IdleCalls

\* Review::status
Status ==
    /\ op' = Call("status", FALSE, <<>>, "", status(Disk))
    /\ pre' = Disk
    /\ UNCHANGED <<contents, original, submitted, commit_id, phase, nEdits>>
    /\ IdleCalls

\* Review::mark_submitted, were the new metadata never written back
MarkSubmittedUnwritten ==
    /\ op' = Call("mark_submitted", FALSE, <<>>, "",
                  IF has_metadata(Disk) THEN Out("Ok") ELSE Out("Err"))
    /\ pre' = Disk
    /\ UNCHANGED <<contents, original, submitted, commit_id, phase, nEdits>>
    /\ IdleCalls

\* Review::mark_submitted
MarkSubmitted ==
    /\ IF has_metadata(Disk)
       THEN /\ \E now \in Epochs : submitted' = <<now>>
            /\ op' = Call("mark_submitted", FALSE, <<>>, "", Out("Ok"))
       ELSE /\ UNCHANGED submitted
            /\ op' = Call("mark_submitted", FALSE, <<>>, "", Out("Err"))
    /\ pre' = Disk
    /\ UNCHANGED <<contents, original, commit_id, phase, nEdits>>
    /\ IdleCalls

\* Review::remove
Remove ==
    LET current == status(Disk) IN
    \E force \in BOOLEAN :
       LET st == IF ~force THEN current ELSE Out("New")
           out == IF st.kind = "Reviewed" THEN Out("Refused")
                  ELSE IF st.kind \in {"Err", "Panic"} THEN st
                  ELSE IF phase = "none" THEN Out("Err")
                  ELSE Out("Ok")
       IN
       /\ op' = Call("remove", force, <<>>, "", out)
       /\ pre' = Disk
       /\ IF out.kind = "Ok"
          THEN /\ contents' = <<>> /\ original' = <<>>
               /\ submitted' = <<>> /\ commit_id' = <<>>
               /\ phase' = "none"
               /\ nEdits' = 0
          ELSE UNCHANGED <<contents, original, submitted, commit_id, phase,
                           nEdits>>
       /\ IdleCalls

\* what the backend answers to the POST of a review: HTTP 200, another
\* status, a body that is no JSON, a failed request
PostAnswers == {"200", "422", "json", "failed"}

\* a call of submit_pr: the answer to its POST ("" if none was made) and
\* what it returned
SubmitCall(post, out) ==
    [name |-> "submit", force |-> FALSE, diff |-> <<>>, commit |-> "",
     out |-> out, post |-> post]

\* Prr::submit_pr, were the review marked submitted before the POST is
\* answered
SubmitPrMarksFirst ==
    LET c == comments(Disk) IN
    /\ pre' = Disk
    /\ IF c.kind # "Ok"
       THEN op' = SubmitCall("", c) /\ UNCHANGED submitted
       ELSE IF  /\ c.review_comment = <<>> /\ c.inline_comments = <<>>
                /\ c.action # "Approve"
       THEN op' = SubmitCall("", Out("Err")) /\ UNCHANGED submitted
       ELSE \E post \in PostAnswers, now \in Epochs :
               /\ submitted' = <<now>>
               /\ op' = SubmitCall(post, IF post \in {"200", "json"}
                                         THEN Out("Ok") ELSE Out("Err"))
    /\ UNCHANGED <<contents, original, commit_id, phase, nEdits>>
    /\ IdleCalls

\* Prr::submit_pr with Prr::submit_review
SubmitPr ==
    LET c == comments(Disk) IN
    /\ pre' = Disk
    /\ IF c.kind # "Ok"
       THEN op' = SubmitCall("", c) /\ UNCHANGED submitted
       ELSE IF  /\ c.review_comment = <<>> /\ c.inline_comments = <<>>
                /\ c.action # "Approve"
       THEN op' = SubmitCall("", Out("Err")) /\ UNCHANGED submitted
       ELSE \E post \in PostAnswers :
               IF post = "200"
               THEN /\ \E now \in Epochs : submitted' = <<now>>
                    /\ op' = SubmitCall(post, Out("Ok"))
               ELSE /\ UNCHANGED submitted
                    /\ op' = SubmitCall(post, IF post = "json" THEN Out("Ok")
                                              ELSE Out("Err"))
    /\ UNCHANGED <<contents, original, commit_id, phase, nEdits>>
    /\ IdleCalls

LifeNext ==
    \/ ReviewNew
    \/ UserEdit
    \/ Comments
    \/ Status
    \/ MarkSubmitted
    \/ Remove
    \/ SubmitPr

LifeSpec == Init /\ [][LifeNext]_vars

----------------------------------------------------------------------------
\* Claims about the parser (specification Spec)

\* C1: while every line fed so far is a line of the fully quoted, unedited
\* form of a diff (a diff header first), every parse_line call has returned
\* no comment and no error, and finish() returns none.
C1_UneditedDiffYieldsNothing ==
    unedited => (ret = RetNone /\ finish(state) = RetNone
                 /\ fin \in {FinPending, RetNone})

\* C8: within the hunk of the last quoted hunk header, declaring (l, r), the
\* left counter is l-1 (saturating) plus the deletion and context lines seen,
\* the right counter is r-1 (saturating) plus the addition and context lines
\* seen, and the current location, the one a following comment is attached
\* to, is Left(left counter) after a deletion line and Right(right counter)
\* after any other content line.
C8_PositionTracking ==
    (inHunk /\ ret.kind \notin {"Err", "Panic"}) =>
        /\ state.tag \in {"FileDiff", "SpanStartOrComment", "Comment"}
        /\ state.left_line = SaturatingSub1(hunkL) + nDel + nCtx
        /\ state.right_line = SaturatingSub1(hunkR) + nAdd + nCtx
        /\ lastDel = "del" => state.line = Left(state.left_line)
        /\ lastDel = "other" => state.line = Right(state.right_line)

\* C9: after a quoted hunk header that follows a diff header has been
\* consumed without error, in whatever state, both counters are the declared
\* starts minus 1, saturating at 0.
C9_HunkHeaderResetsCounters ==
    (/\ nlines > 0
     /\ ret.kind \notin {"Err", "Panic"}
     /\ IsQuotedHunkHeader(lastLine)
     /\ lastFile # NoFile) =>
        /\ state.tag = "FileDiff"
        /\ state.left_line = SaturatingSub1(DeclaredL(lastLine))
        /\ state.right_line = SaturatingSub1(DeclaredR(lastLine))

\* C10: an inline comment, returned by parse_line or by finish, carries the
\* new path of the last quoted diff header that precedes it in the input.
C10_CommentFileIsLastDiffHeader ==
    /\ ret.kind = "Inline" => ret.file = prevFile
    /\ fin.kind = "Inline" => fin.file = lastFile

----------------------------------------------------------------------------
\* Claims about creation and validation (specification CreateSpec)

\* a quoted line that is neither a diff header nor a hunk header
IsQuotedContent(raw) ==
    is_quoted(raw) /\ ~IsQuotedDiffHeader(raw) /\ ~IsQuotedHunkHeader(raw)

\* the location of a content line consumed when the counters were (left,
\* right): Left if it is a deletion, else Right, numbered after advancing
LocationAfter(raw, left, right) ==
    IF is_left_line(Unquote(raw)) THEN Left(left + 1) ELSE Right(right + 1)

\* C11: blank unquoted lines followed by a quoted content line, with no span
\* open, take the parser back to FileDiff with start_line set to the location
\* of that quoted line; the next comment emitted, by parse_line or by finish,
\* carries that start_line, and as line the location of the last quoted line
\* before the comment.
C11_SpanStart ==
    /\ (/\ prev.tag = "SpanStartOrComment"
        /\ IsQuotedContent(lastLine)
        /\ ret.kind # "Err")
       => /\ state.tag = "FileDiff"
          /\ state.span_start_line
                = LocationAfter(lastLine, prev.left_line, prev.right_line)
          /\ openSpan = state.span_start_line
    /\ ret.kind = "Inline"
       => /\ ret.start_line = commentAt.start_line
          /\ ret.line = commentAt.line
    /\ fin.kind = "Inline"
       => /\ fin.start_line = commentAt.start_line
          /\ fin.line = commentAt.line

\* parse_line returned a comment on a span that a deletion line opened
C11_Witness ==
    /\ ret.kind = "Inline"
    /\ ret.start_line.side = "Left"
    /\ ret.start_line.n > 0
    /\ ret.line = ret.start_line

\* C12: the parser records one span start, the span opened and not yet
\* commented on; blank unquoted lines followed by a quoted line while that
\* span is open make parse_line fail on the quoted line, the parser unchanged.
C12_OneSpanOpen ==
    /\ state.tag \in {"FileDiff", "SpanStartOrComment", "Comment"}
       => state.span_start_line = openSpan
    /\ (/\ prev.tag = "SpanStartOrComment"
        /\ prev.span_start_line # NoLoc
        /\ is_quoted(lastLine))
       => /\ ret.kind = "Err"
          /\ state = prev

\* a second span start was refused
C12_Witness ==
    /\ prev.tag = "SpanStartOrComment"
    /\ openSpan # NoLoc
    /\ IsQuotedContent(lastLine)
    /\ ret = RetErr("unterminated span")

\* the parser, before the last line, held a span with no comment begun on it
SpanWasOpen ==
    /\ prev.tag \in {"FileDiff", "SpanStartOrComment"}
    /\ prev.span_start_line # NoLoc

\* C13: while a span is open, parse_line returns an error on a quoted hunk
\* header and on a quoted diff header; the span start and the line of every
\* comment emitted lie under the same hunk header of the same file.
C13_SpanWithinHunk ==
    /\ (SpanWasOpen /\ IsQuotedHunkHeader(lastLine)) => ret.kind = "Err"
    /\ (SpanWasOpen /\ IsQuotedDiffHeader(lastLine)) => ret.kind = "Err"
    /\ (ret.kind = "Inline" /\ ret.start_line # NoLoc)
       => commentAt.start_hunk = commentAt.hunk
    /\ (fin.kind = "Inline" /\ fin.start_line # NoLoc)
       => commentAt.start_hunk = commentAt.hunk

\* C14: finish returns the comment pending at the end of the input as an
\* inline comment with a non-empty text and the file, line and span start the
\* parser had when the comment began; in every state but Comment it returns
\* none.
C14_FinishEmitsTrailingComment ==
    fin # FinPending
    => IF state.tag = "Comment"
       THEN /\ fin.kind = "Inline"
            /\ fin.file = captured.file
            /\ fin.line = captured.line
            /\ fin.start_line = captured.start_line
            /\ fin.text # <<>>
       ELSE fin = RetNone

\* finish returned a two-line comment on a span
C14_Witness ==
    /\ fin.kind = "Inline"
    /\ Len(state.comment) = 2
    /\ captured.start_line # NoLoc
    /\ captured.file = <<"f">>

\* the last line, unquoted, trimmed
Directive == IF is_quoted(lastLine) THEN <<>> ELSE Trim(lastLine)

\* C15: in Start an unquoted line that trims to '@prr approve', '@prr reject'
\* or '@prr comment' makes parse_line return the review action Approve,
\* RequestChanges or Comment and leaves the parser as it was; an unquoted
\* line that trims to '@prr ' followed by anything else is a parse error.
C15_DirectivesInStart ==
    (prev.tag = "Start" /\ StartsWith(Directive, <<"@prr", SP>>))
    => IF Directive = <<"@prr", SP, "approve">>
       THEN ret = RetAction("Approve") /\ state = prev
       ELSE IF Directive = <<"@prr", SP, "reject">>
       THEN ret = RetAction("RequestChanges") /\ state = prev
       ELSE IF Directive = <<"@prr", SP, "comment">>
       THEN ret = RetAction("Comment") /\ state = prev
       ELSE ret.kind = "Err"

\* a directive with blanks around it was accepted after comment text
C15_Witness ==
    /\ prev.tag = "Start"
    /\ prev.comment # <<>>
    /\ lastLine = <<SP, "@prr", SP, "comment", SP>>
    /\ ret = RetAction("Comment")

\* C16: a parse_line call made outside Start leaves the parser outside Start
\* and returns no review action; an unquoted '@prr ...' line met there is a
\* parse error in FilePreamble and a line of comment text in the other
\* states.
C16_StartIsNeverReentered ==
    prev.tag # "Start"
    => /\ state.tag # "Start"
       /\ ret.kind # "ReviewAction"
       /\ StartsWith(Directive, <<"@prr", SP>>)
          => CASE prev.tag = "FilePreamble" ->
                     ret.kind = "Err" /\ state = prev
               [] prev.tag \in {"FileDiff", "SpanStartOrComment"} ->
                     ret = RetNone /\ state = CommentState(prev, <<lastLine>>)
               [] prev.tag = "Comment" ->
                     /\ ret = RetNone
                     /\ state = [prev EXCEPT
                                    !.comment = Append(@, lastLine)]

\* a directive became the second line of an inline comment
C16_Witness ==
    /\ prev.tag = "Comment"
    /\ lastLine = <<"@prr", SP, "approve">>
    /\ state.comment = <<<<"c">>, <<"@prr", SP, "approve">>>>

\* C2: the review file written by create(D) validates against the metadata
\* written by the same create, for every diff D.
C2_CreatedFileValidates == phase = "validated" => validOut.ok

----------------------------------------------------------------------------
\* Claims about snip resolution (specification SnipSpec)

\* the classified review file and the original lines of the current state
Pat == Classify(Lines(contents))
Text == Lines(original)
OutLines == Lines(snipOut.text)
Resolved == phase # "edited"

IsMarker(line) == LineTypeFrom(line).type = "Snip"
IsCommentLine(line) == LineTypeFrom(line).type = "Comment"
IsQuotedLine(line) == LineTypeFrom(line).type = "Quoted"

\* An alignment gives every elision marker of a pattern the number of
\* original lines it stands for.
SnipIdx(pat) == { i \in 1..Len(pat) : pat[i].type = "Snip" }
Alignments(pat, text) == [SnipIdx(pat) -> 0..Len(text)]

\* number of original lines the first i pattern lines stand for under f
RECURSIVE Consumed(_, _, _)
Consumed(pat, f, i) ==
    IF i = 0 THEN 0
    ELSE Consumed(pat, f, i - 1)
         + (IF pat[i].type = "Quoted" THEN 1
            ELSE IF pat[i].type = "Snip" THEN f[i] ELSE 0)

\* under f the quoted lines, with the snips expanded, are exactly the text
Aligns(pat, text, f) ==
    /\ Consumed(pat, f, Len(pat)) = Len(text)
    /\ \A i \in 1..Len(pat) :
          pat[i].type = "Quoted" =>
              /\ Consumed(pat, f, i) <= Len(text)
              /\ text[Consumed(pat, f, i)] = pat[i].text

\* the file with every marker replaced by the quoted lines it stands for
RECURSIVE Expanded(_, _, _, _)
Expanded(pat, text, f, i) ==
    IF i = 0 THEN <<>>
    ELSE Expanded(pat, text, f, i - 1)
         \o (IF pat[i].type = "Quoted" THEN <<QuotePrefix \o pat[i].text>>
             ELSE IF pat[i].type = "Comment" THEN <<pat[i].text>>
             ELSE QuoteAll(SubSeq(text, Consumed(pat, f, i - 1) + 1,
                                  Consumed(pat, f, i))))

\* f gives the first marker at which f and g differ the smaller length
LexLess(pat, f, g) ==
    \E i \in SnipIdx(pat) :
        /\ f[i] < g[i]
        /\ \A j \in SnipIdx(pat) : j < i => f[j] = g[j]

ValidAlignments == { f \in Alignments(Pat, Text) : Aligns(Pat, Text, f) }

\* the file is the fully quoted text with the k lines after the first p
\* replaced by one marker
SingleSnipAt(p, k) ==
    \E m \in { <<"[...]">>, <<SP, "[..]", SP>> } :
        Lines(contents) = QuoteAll(SubSeq(Text, 1, p)) \o <<m>>
                          \o QuoteAll(SubSeq(Text, p + k + 1, Len(Text)))

\* C3: a file that is the fully quoted original with any run of k lines at
\* any position p replaced by one marker resolves to the fully quoted original.
C3_SingleSnipResolves ==
    (Resolved /\ \E p \in 0..Len(Text) : \E k \in 0..(Len(Text) - p) :
                    SingleSnipAt(p, k)) =>
        snipOut = [ok |-> TRUE, text |-> Unlines(QuoteAll(Text))]

C3_Witness ==
    /\ phase = "resolved" /\ snipOut.ok
    /\ Len(Text) = 3 /\ Text[1] # Text[2]
    /\ SingleSnipAt(1, 2)

\* C4: when resolution succeeds, the output has no elision marker, its quoted
\* lines are "> " + each original line, all of them in order, and its other
\* lines are the comment lines of the file; a file without markers whose
\* lines are all quoted and equal the original resolves to itself.
C4_ResolutionSound ==
    /\ (Resolved /\ snipOut.ok) =>
          /\ \A i \in 1..Len(OutLines) : ~IsMarker(OutLines[i])
          /\ SelectSeq(OutLines, IsQuotedLine) = QuoteAll(Text)
          /\ SelectSeq(OutLines, IsCommentLine)
                = SelectSeq(Lines(contents), IsCommentLine)
    /\ (Resolved /\ Lines(contents) = QuoteAll(Text)) =>
          (snipOut.ok /\ OutLines = Lines(contents))

C4_Witness ==
    /\ phase = "resolved" /\ snipOut.ok
    /\ Len(Text) = 3
    /\ Cardinality(SnipIdx(Pat)) = 2
    /\ \E i \in 1..Len(Pat) : Pat[i].type = "Comment"

\* C5: resolution succeeds exactly when some alignment makes the quoted
\* lines of the file, with the snips expanded, equal to the original lines.
C5_ResolutionComplete ==
    Resolved => (snipOut.ok <=> ValidAlignments # {})

C5_Witness ==
    /\ phase = "resolved" /\ ~snipOut.ok
    /\ SnipIdx(Pat) # {}
    /\ \E i \in 1..Len(Pat) : Pat[i].type = "Quoted"
    /\ Len(Text) >= 2

\* C6: the output is the expansion under the alignment in which each marker,
\* in file order, stands for the fewest lines.
C6_FirstFit ==
    (Resolved /\ snipOut.ok) =>
        LET V == ValidAlignments IN
        \E f \in V :
            /\ \A g \in V : g = f \/ LexLess(Pat, f, g)
            /\ OutLines = Expanded(Pat, Text, f, Len(Pat))

C6_Witness ==
    /\ phase = "resolved" /\ snipOut.ok
    /\ LET V == ValidAlignments IN
       \E f, g \in V :
          Expanded(Pat, Text, f, Len(Pat)) # Expanded(Pat, Text, g, Len(Pat))

\* the review file without its comment lines
WithoutComments(cont) ==
    Unlines(SelectSeq(Lines(cont), LAMBDA l : ~IsCommentLine(l)))

\* C7: removing the comment lines of the file changes neither whether
\* resolution succeeds nor the quoted lines of the output; on success the
\* comment lines of the output are those of the file, in order, each where
\* the file has it among the expanded lines.
C7_CommentsInvisible ==
    Resolved =>
        LET bare == resolve_snips(WithoutComments(contents), original) IN
        /\ bare.ok = snipOut.ok
        /\ snipOut.ok =>
              /\ SelectSeq(OutLines, IsQuotedLine) = Lines(bare.text)
              /\ SelectSeq(OutLines, IsCommentLine)
                    = SelectSeq(Lines(contents), IsCommentLine)
              /\ \E f \in ValidAlignments :
                    OutLines = Expanded(Pat, Text, f, Len(Pat))

C7_Witness ==
    /\ phase = "resolved" /\ snipOut.ok
    /\ Len(Pat) = 4 /\ Pat[1].type = "Comment" /\ Pat[2].type = "Snip"
    /\ Pat[3].type = "Comment" /\ Pat[4].type = "Quoted"
    /\ Len(Text) = 3

----------------------------------------------------------------------------
\* Claims about the life of a review

\* comments() succeeded on the review d and found something to submit
HasComments(d) ==
    LET c == comments(d) IN
    c.kind = "Ok" /\ (c.review_comment # <<>> \/ c.inline_comments # <<>>)

\* C17: status() of a review on disk returns Submitted whenever the metadata
\* has a submission timestamp, whatever the review file contains; without a
\* timestamp it returns Reviewed if comments() yields a non-empty review
\* comment or an inline comment, and New if comments() yields neither.
C17_StatusOrder ==
    (op.name = "status" /\ pre.phase = "onDisk")
    => IF pre.submitted # <<>> THEN op.out.kind = "Submitted"
       ELSE IF HasComments(pre) THEN op.out.kind = "Reviewed"
       ELSE comments(pre).kind = "Ok" => op.out.kind = "New"

\* the status the review d has by its metadata and its comments: Submitted
\* with a timestamp, else Reviewed or New by what comments() yields, and
\* Unknown where comments() fails on a review never submitted
StatusOf(d) ==
    IF d.phase = "none" THEN "None"
    ELSE IF d.submitted # <<>> THEN "Submitted"
    ELSE IF HasComments(d) THEN "Reviewed"
    ELSE IF comments(d).kind = "Ok" THEN "New"
    ELSE "Unknown"

\* C18: create returns an error when force is false and the review on disk
\* is Reviewed; it succeeds when force is true, when there is no review,
\* when the review is New and when it is Submitted; after a successful create
\* the metadata holds the given diff as original, no submission timestamp and
\* the given commit id.
C18_CreateGuard ==
    op.name = "create"
    => /\ (~op.force /\ StatusOf(pre) = "Reviewed") => op.out.kind # "Ok"
       /\ op.force => op.out.kind = "Ok"
       /\ StatusOf(pre) \in {"None", "New", "Submitted"} => op.out.kind = "Ok"
       /\ op.out.kind = "Ok"
          => /\ phase = "onDisk"
             /\ original = op.diff
             /\ submitted = <<>>
             /\ commit_id = <<op.commit>>

\* C19: remove of a review on disk returns an error and deletes nothing when
\* force is false and the review is Reviewed; when force is true, or the
\* review is New or Submitted, it succeeds and neither the review file nor
\* the metadata exists afterwards.
C19_RemoveGuard ==
    (op.name = "remove" /\ pre.phase = "onDisk")
    => /\ (~op.force /\ StatusOf(pre) = "Reviewed")
          => op.out.kind # "Ok" /\ Disk = pre
       /\ (op.force \/ StatusOf(pre) \in {"New", "Submitted"})
          => op.out.kind = "Ok" /\ phase = "none"

\* C20 as stated: over create, user edits, comments, status and
\* mark_submitted, a submission timestamp that is set stays set.
C20_SubmittedStaysSet ==
    (/\ op.name \in {"create", "edit", "comments", "status", "mark_submitted"}
     /\ pre.submitted # <<>>)
    => submitted # <<>>

\* C20: the submission timestamp goes from unset to set by a successful
\* mark_submitted and by nothing else; user edits, comments and status leave
\* it as it is, mark_submitted leaves it set, and besides remove only a
\* successful create, which starts the review anew, makes it unset again.
C20_SubmittedUnsetOnlyByCreate ==
    /\ op.name \in {"edit", "comments", "status"}
       => submitted = pre.submitted
    /\ (op.name = "mark_submitted" /\ op.out.kind = "Ok") => submitted # <<>>
    /\ (op.name = "mark_submitted" /\ op.out.kind # "Ok")
       => submitted = pre.submitted
    /\ op.name = "create"
       => IF op.out.kind = "Ok" THEN submitted = <<>>
          ELSE submitted = pre.submitted
    /\ op.name = "remove"
       => IF op.out.kind = "Ok" THEN phase = "none"
          ELSE submitted = pre.submitted

\* a submitted review was created anew and lost its timestamp
C20_Witness ==
    /\ op.name = "create"
    /\ pre.submitted # <<>>
    /\ submitted = <<>>

\* C21: the review file as created, the quoted diff, has status New; with a
\* comment of the user appended to it the status is Reviewed; and once
\* mark_submitted has succeeded the status is Submitted after whatever the
\* user does to the review file since: never Reviewed, New or an error.
C21_StatusProgression ==
    (op.name = "status" /\ pre.phase = "onDisk")
    => /\ (pre.submitted = <<>>
           /\ pre.contents = prefix_lines(pre.original, <<">">>))
          => op.out.kind = "New"
       /\ (pre.submitted = <<>>
           /\ \E l \in EditLines :
                 pre.contents
                     = prefix_lines(pre.original, <<">">>) \o l \o <<NL>>)
          => op.out.kind = "Reviewed"
       /\ pre.submitted # <<>> => op.out.kind = "Submitted"

----------------------------------------------------------------------------
\* Validation of an edited review file against the stored original
\* (Review::validate_review_file)

\* lines of the review file handed to validate_review_file
MaxFile == 3

\* lines of the original: with and without trailing whitespace, and empty
StoredLines == { <<"a">>, <<"a", SP>>, <<>> }

\* lines of the review file: quoted lines with and without trailing
\* whitespace, a quoted line the original does not have, the two ways of
\* quoting an empty line, and a comment
FileLines ==
    { <<">", SP, "a">>, <<">", SP, "a", SP>>, <<">", SP, "b">>,
      <<">">>, <<">", SP>>, <<"c">> }

ValidateInit ==
    /\ ParserInit
    /\ original \in { Unlines(t) : t \in SeqsUpTo(StoredLines, MaxText) }
    /\ contents \in { Unlines(p) : p \in SeqsUpTo(FileLines, MaxFile) }
    /\ phase = "edited"
    /\ snipOut = NotResolved
    /\ validOut = NotValidated
    /\ LifeIdle

\* self.validate_review_file(&contents)
ValidateFile ==
    /\ phase = "edited"
    /\ validOut' = validate_review_file(contents, original)
    /\ phase' = "validated"
    /\ UNCHANGED <<original, contents, snipOut, lifeVars, parserVars>>

ValidateNext == ValidateFile

ValidateSpec == ValidateInit /\ [][ValidateNext]_vars

\* a quoted line of a review file: "> " and the text, or ">" alone
IsQuotedFileLine(line) == StartsWith(line, <<">", SP>>) \/ line = <<">">>

\* the quoted lines of the file s, in order, and their positions in it
QuotedIdx(s) == { i \in 1..Len(Lines(s)) : IsQuotedFileLine(Lines(s)[i]) }
NthQuoted(s, k) ==
    CHOOSE i \in QuotedIdx(s) :
       Cardinality({ j \in QuotedIdx(s) : j <= i }) = k

\* the text a quoted line quotes, trailing whitespace dropped
QuotedText(line) ==
    IF line = <<">">> THEN <<>> ELSE TrimEnd(SubSeq(line, 3, Len(line)))

\* the k-th quoted line of the file s quotes the k-th line of the original o,
\* trailing whitespace aside
SameLine(s, o, k) ==
    QuotedText(Lines(s)[NthQuoted(s, k)]) = TrimEnd(Lines(o)[k])

\* C22: validate_review_file accepts a review file exactly when its quoted
\* lines, taken in order without the lines that are not quoted, are as many
\* as the lines of the original and each equals its line of the original once
\* trailing whitespace is trimmed from both: a difference in trailing
\* whitespace never fails, any other difference in a quoted line and any
\* missing or extra quoted line does.
C22_ValidateComparesTrimmed ==
    phase = "validated"
    => (validOut.ok
        <=> /\ Cardinality(QuotedIdx(contents)) = Len(Lines(original))
            /\ \A k \in 1..Len(Lines(original)) :
                  SameLine(contents, original, k))

\* a file that differs from the original in trailing whitespace and holds a
\* comment was accepted
C22_Witness ==
    /\ phase = "validated"
    /\ validOut.ok
    /\ Len(Lines(original)) = 2
    /\ \E k \in 1..2 :
          SubSeq(Lines(contents)[NthQuoted(contents, k)], 3,
                 Len(Lines(contents)[NthQuoted(contents, k)]))
              # Lines(original)[k]
    /\ \E i \in 1..Len(Lines(contents)) : Lines(contents)[i] = <<"c">>

\* the first quoted line of the file s that differs from its line of the
\* original o, counted among the quoted lines; 0 when there is none
FirstDiffering(s, o) ==
    LET n == IF Cardinality(QuotedIdx(s)) < Len(Lines(o))
             THEN Cardinality(QuotedIdx(s)) ELSE Len(Lines(o))
        D == { k \in 1..n : ~SameLine(s, o, k) }
    IN IF D = {} THEN 0 ELSE CHOOSE k \in D : \A j \in D : k <= j

\* C23: when validate_review_file fails on a quoted line that differs from
\* its line of the original, the line number it reports is the 1-based number
\* of that quoted line in the review file, counting every quoted line and
\* every comment line before it.
C23_ReportedLineNumber ==
    (phase = "validated" /\ FirstDiffering(contents, original) # 0)
    => /\ ~validOut.ok
       /\ validOut.line
              = NthQuoted(contents, FirstDiffering(contents, original))

----------------------------------------------------------------------------
\* Review::comments on a review file whose quoted lines an editor saved
\* without their trailing whitespace

\* lines of a hunk: an added line, the same with trailing whitespace, a blank
\* context line, and an empty line
BodyLines == { <<"+", "a">>, <<"+", "a", SP>>, <<SP>>, <<>> }

\* the stored original: one file, one hunk, the lines of the hunk
StoredDiffs ==
    { Unlines(<<DiffHeader("f"), Hunk("1", "1")>> \o b) :
         b \in SeqsUpTo(BodyLines, MaxDiff) }

\* the lines ol of the original quoted with "> ", each saved as written or
\* without its trailing whitespace
RECURSIVE SavedLines(_)
SavedLines(ol) ==
    IF ol = <<>> THEN { <<>> }
    ELSE { <<h>> \o t :
              h \in { QuotePrefix \o ol[1], TrimEnd(QuotePrefix \o ol[1]) },
              t \in SavedLines(Tail(ol)) }

\* the review files of the original o, with a comment at the end or none
SavedFiles(o) ==
    { Unlines(f \o tail) :
         f \in SavedLines(Lines(o)), tail \in { <<>>, << <<"c">> >> } }

SavedInit ==
    /\ ParserInit
    /\ original \in StoredDiffs
    /\ contents \in SavedFiles(original)
    /\ phase = "onDisk"
    /\ snipOut = NotResolved /\ validOut = NotValidated
    /\ submitted = <<>> /\ commit_id = <<"c1">> /\ nEdits = 0
    /\ run = NoRun
    /\ op = NoOp
    /\ pre = OnDisk("none", <<>>, <<>>, <<>>, <<>>)

SavedNext == Comments

SavedSpec == SavedInit /\ [][SavedNext]_vars

\* C24: comments() reports no corruption for a review file whose quoted
\* lines equal the lines of the original except for trailing whitespace.
C24_TrailingWhitespaceEndToEnd ==
    (/\ op.name = "comments"
     /\ Cardinality(QuotedIdx(pre.contents)) = Len(Lines(pre.original))
     /\ \A k \in 1..Len(Lines(pre.original)) :
           SameLine(pre.contents, pre.original, k))
    => op.out.kind = "Ok"

\* the review file of d quotes every line of the original with "> " as it is
\* written, and every empty line of the original as ">" alone
QuotesEmptyBare(d) ==
    LET ol == Lines(d.original)
        fl == Lines(d.contents)
    IN /\ Len(fl) >= Len(ol)
       /\ \A k \in 1..Len(ol) :
             fl[k] = IF ol[k] = <<>> THEN <<">">> ELSE QuotePrefix \o ol[k]
       /\ \A k \in 1..Len(fl) : k > Len(ol) => ~is_quoted(fl[k])

\* C25: a line that is ">" alone quotes an empty line for snip resolution,
\* for validation and for the parser alike, so comments() succeeds on a
\* review file in which the empty lines of the original are quoted as ">".
C25_BareQuoteIsQuotedBlank ==
    (op.name = "comments" /\ QuotesEmptyBare(pre)) => op.out.kind = "Ok"

----------------------------------------------------------------------------
\* Further claims about the parser (specification Spec)

\* C26: parse_line returns a Review comment only on the line that takes the
\* parser out of Start, the first diff header of the input, and before any
\* inline comment has begun; the headers accepted so far are counted, so the
\* parser returns at most one Review comment per input.
C26_OneReviewComment ==
    ret.kind = "Review"
    => /\ prev.tag = "Start"
       /\ state.tag = "FilePreamble"
       /\ IsQuotedDiffHeader(lastLine)
       /\ hunkNo = 1
       /\ captured = NoComment
       /\ ret.text # <<>>

\* a review comment of two lines was returned at the diff header
C26_Witness ==
    /\ ret.kind = "Review"
    /\ nlines = 3
    /\ Len(prev.comment) = 2

\* a comment is being written right after the hunk header that came last
AfterHunkHeader ==
    state.tag = "Comment" /\ inHunk /\ nDel + nAdd + nCtx = 0

\* C28: a comment written right after a hunk header, before any content line
\* of the hunk, is attached to the right side at the declared right start
\* minus 1, saturating at 0; after a header without right start, as in
\* "@@ -0,0 +1 @@", that is Right(0), and a comment after the first added
\* line of that hunk is attached to Right(1).  The location held in the
\* Comment state is the one the comment is emitted with.
C28_CommentAfterHunkHeader ==
    /\ AfterHunkHeader => state.line = Right(SaturatingSub1(hunkR))
    /\ (AfterHunkHeader /\ fin.kind = "Inline")
       => fin.line = Right(SaturatingSub1(hunkR))
    /\ (/\ state.tag = "Comment" /\ inHunk
        /\ hunkL = 0 /\ hunkR = 0
        /\ nAdd = 1 /\ nDel = 0 /\ nCtx = 0)
       => state.line = Right(1)

\* C29: when the input ends while a span is open, its start recorded and no
\* comment begun after it, the end of the input is reported as an error and
\* the span is not dropped in silence.
C29_OpenSpanAtEndIsAnError ==
    (fin # FinPending /\ openSpan # NoLoc /\ state.tag # "Comment")
    => fin.kind = "Err"

\* the line read last was read in the Comment state
ReadInComment == nlines > 0 /\ prev.tag = "Comment"

\* C30: a quoted line read in the Comment state makes parse_line return one
\* Inline comment: its text the buffered lines joined and trimmed at the end,
\* its file, line and start_line those of the file-diff state held when the
\* comment began; the parser is left without a span, so that the next comment
\* has no start_line unless a span is opened anew after this quoted line.  An
\* unquoted line read in the Comment state, blank ones included, is added to
\* the comment, returns nothing and leaves the span as it is.  The one
\* quoted line that returns no comment is a diff header that does not parse,
\* which is an error.
C30_QuotedLineEndsComment ==
    /\ (ReadInComment /\ is_quoted(lastLine))
       => IF ret.kind = "Err"
          THEN /\ is_diff_header(Unquote(lastLine))
               /\ ~parse_diff_header(Unquote(lastLine)).ok
          ELSE /\ ret.kind = "Inline"
               /\ ret.text = TrimEnd(JoinNL(prev.comment))
               /\ ret.file = captured.file
               /\ ret.line = captured.line
               /\ ret.start_line = captured.start_line
               /\ state.tag \in {"FileDiff", "FilePreamble"}
               /\ state.span_start_line = NoLoc
               /\ openSpan = NoLoc
    /\ (ReadInComment /\ ~is_quoted(lastLine))
       => /\ ret = RetNone
          /\ state = [prev EXCEPT !.comment = Append(@, lastLine)]

\* a comment on a span, followed by a blank line, was returned at a quoted
\* line and the span is gone
C30_Witness ==
    /\ ReadInComment
    /\ ret.kind = "Inline"
    /\ ret.start_line # NoLoc
    /\ state.tag = "FileDiff"
    /\ state.span_start_line = NoLoc

\* the line read last was read in the state with the given tag
ReadIn(tag) == nlines > 0 /\ prev.tag = tag

\* C31: between a diff header and the first hunk header of its file, in
\* FilePreamble, every unquoted line, a blank one included, is a parse error;
\* a quoted line that is no hunk header returns nothing and leaves the state
\* of the parser, its position included, as it was.
C31_PreambleLines ==
    ReadIn("FilePreamble")
    => /\ ~is_quoted(lastLine) => (ret.kind = "Err" /\ state = prev)
       /\ (is_quoted(lastLine) /\ ~IsQuotedHunkHeader(lastLine))
          => (ret = RetNone /\ state = prev)

\* a blank line in the preamble was refused
C31_Witness ==
    /\ ReadIn("FilePreamble")
    /\ Trim(lastLine) = <<>>
    /\ ret.kind = "Err"

\* the quoted line raw has the form "diff --git a/<old> b/<new>"
HasDiffHeaderForm(raw) ==
    LET line == Unquote(raw) IN
    /\ Len(line) >= 4
    /\ line[1] = "diff --git " /\ line[2] = "a/x" /\ line[3] = " b/"

\* C32: in Start a quoted line that is no diff header is a parse error, and
\* so is a quoted line that starts with "diff --git " without having the form
\* "diff --git a/<old> b/<new>"; both leave the parser in Start as it was.  A
\* quoted diff header of that form moves the parser to FilePreamble for the
\* new path.
C32_QuotedLinesInStart ==
    (ReadIn("Start") /\ is_quoted(lastLine))
    => IF HasDiffHeaderForm(lastLine)
       THEN /\ ret.kind \in {"None", "Review"}
            /\ state.tag = "FilePreamble"
            /\ state.file = SubSeq(Unquote(lastLine), 4, Len(Unquote(lastLine)))
       ELSE /\ ret.kind = "Err"
            /\ state = prev

\* a quoted line starting with "diff --git " that is no diff header was
\* refused in Start
C32_Witness ==
    /\ ReadIn("Start")
    /\ lastLine = <<">", SP, "diff --git ", "zzz">>
    /\ ret.kind = "Err"
    /\ state.tag = "Start"

\* C37: every comment the parser returns has a text that is not empty.  The
\* text of an Inline comment is its buffered lines joined by newlines, the
\* blank lines between them kept, trimmed at the end, and the first of these
\* lines is never blank; a Review comment is returned only when a line that
\* is not blank was accumulated.
C37_CommentTextNotEmpty ==
    /\ ret.kind \in {"Inline", "Review"}
       => /\ ret.text # <<>>
          /\ Trim(prev.comment[1]) # <<>>
    /\ ret.kind = "Inline" => ret.text = TrimEnd(JoinNL(prev.comment))
    /\ fin.kind = "Inline"
       => /\ fin.text # <<>>
          /\ Trim(state.comment[1]) # <<>>
          /\ fin.text = TrimEnd(JoinNL(state.comment))
    /\ state.tag = "Comment" => Trim(state.comment[1]) # <<>>

\* a comment of two lines with a blank line between them and one after them
\* was returned
C37_Witness ==
    /\ fin.kind = "Inline"
    /\ state.comment = << <<"c">>, <<>>, <<"c">>, <<SP>> >>
    /\ fin.text = <<"c", NL, NL, "c">>

\* the span of the comment c, begun under the header numbered h and ended by
\* a comment under the header numbered k, is well-ordered
WellOrdered(c, h, k) ==
    /\ h = k
    /\ c.start_line.side = c.line.side => c.start_line.n <= c.line.n

\* C38: a comment returned with a start_line has its span start and its line
\* under the same hunk header of the same file, and when the two are on the
\* same side the number of the start is at most the number of the line.
C38_SpanWellOrdered ==
    /\ (ret.kind = "Inline" /\ ret.start_line # NoLoc)
       => WellOrdered(ret, commentAt.start_hunk, commentAt.hunk)
    /\ (fin.kind = "Inline" /\ fin.start_line # NoLoc)
       => WellOrdered(fin, commentAt.start_hunk, commentAt.hunk)

\* a comment on a span of two added lines was returned
C38_Witness ==
    /\ fin.kind = "Inline"
    /\ fin.start_line.side = "Right"
    /\ fin.line.side = "Right"
    /\ fin.start_line.n < fin.line.n

----------------------------------------------------------------------------
\* Further claims about the life of a review (specification LifeSpec)

\* the operation made last returned an error
Failed ==
    \/ op.name = "comments" /\ op.out.kind # "Ok"
    \/ op.name = "status" /\ op.out.kind \notin {"New", "Reviewed", "Submitted"}
    \/ op.name \in {"create", "remove"} /\ op.out.kind # "Ok"

\* C27: when comments(), status(), a create that is refused or a remove that
\* is refused returns an error, the review file and the metadata are as they
\* were before the call.
C27_FailureLeavesReviewUntouched ==
    Failed => Disk = pre

\* a create with another diff was refused for a review with comments
C27_Witness ==
    /\ op.name = "create"
    /\ op.out.kind = "Refused"
    /\ pre.phase = "onDisk"
    /\ pre.original # op.diff

----------------------------------------------------------------------------
\* Review::comments on a review file with lines of the user in front of the
\* quoted diff

\* lines of the user in front of the first diff header
MaxHead == 4

\* what a user writes there: blank lines, text, directives
HeadLines ==
    { <<>>, <<SP>>, <<"c">>, <<SP, "c", SP>>, <<"@prr", SP, "approve">>,
      <<SP, "@prr", SP, "comment", SP>>, <<"@prr", SP, "zzz">> }

HeadInit ==
    /\ ParserInit
    /\ original = Unlines(<<DiffHeader("f")>>)
    /\ contents \in { Unlines(h \o <<Q(DiffHeader("f"))>>) :
                         h \in SeqsUpTo(HeadLines, MaxHead) }
    /\ phase = "onDisk"
    /\ snipOut = NotResolved /\ validOut = NotValidated
    /\ submitted = <<>> /\ commit_id = <<"c1">> /\ nEdits = 0
    /\ run = NoRun
    /\ op = NoOp
    /\ pre = OnDisk("none", <<>>, <<>>, <<>>, <<>>)

HeadNext == Comments

HeadSpec == HeadInit /\ [][HeadNext]_vars

\* the lines of the review file d in front of its first quoted line
RECURSIVE UpToQuoted(_)
UpToQuoted(ls) ==
    IF ls = <<>> \/ is_quoted(ls[1]) THEN <<>>
    ELSE <<ls[1]>> \o UpToQuoted(Tail(ls))
HeadOf(d) == UpToQuoted(Lines(d.contents))

\* a line that is a directive: "@prr " and a word, blanks around it aside
IsDirectiveLine(line) == StartsWith(Trim(line), <<"@prr", SP>>)
DirectiveWord(line) == SubSeq(Trim(line), 3, Len(Trim(line)))

\* ls without the blank lines it begins with
RECURSIVE SkipBlank(_)
SkipBlank(ls) ==
    IF ls = <<>> THEN <<>>
    ELSE IF Trim(ls[1]) = <<>> THEN SkipBlank(Tail(ls)) ELSE ls

\* the text of the review comment that the lines ls hold
ReviewText(ls) ==
    Trim(JoinNL(SkipBlank(SelectSeq(ls, LAMBDA l : ~IsDirectiveLine(l)))))

\* the action of the directive that comes last in ls, Comment without one
RECURSIVE LastAction(_, _)
LastAction(ls, a) ==
    IF ls = <<>> THEN a
    ELSE LastAction(Tail(ls),
                    IF ~IsDirectiveLine(ls[1]) THEN a
                    ELSE IF DirectiveWord(ls[1]) = <<"approve">> THEN "Approve"
                    ELSE IF DirectiveWord(ls[1]) = <<"reject">>
                    THEN "RequestChanges"
                    ELSE "Comment")

\* C33: the review comment is the text of the unquoted lines in front of the
\* first diff header that are no directives, the blank lines at their
\* beginning skipped, joined by newlines and trimmed, and there is none when
\* that text is empty; the directives among those lines give the action and
\* are no part of the text.
C33_ReviewCommentText ==
    (/\ op.name = "comments"
     /\ \A i \in 1..Len(HeadOf(pre)) :
           IsDirectiveLine(HeadOf(pre)[i])
           => DirectiveWord(HeadOf(pre)[i])
                  \in {<<"approve">>, <<"reject">>, <<"comment">>})
    => /\ op.out.kind = "Ok"
       /\ op.out.review_comment = ReviewText(HeadOf(pre))
       /\ op.out.action = LastAction(HeadOf(pre), "Comment")
       /\ op.out.inline_comments = <<>>

\* "@prr approve", two blank lines and a line of text gave the action
\* Approve and that line as the review comment
C33_Witness ==
    /\ op.name = "comments"
    /\ HeadOf(pre) = << <<"@prr", SP, "approve">>, <<>>, <<>>, <<"c">> >>
    /\ op.out.action = "Approve"
    /\ op.out.review_comment = <<"c">>

----------------------------------------------------------------------------
\* Claims about submission (specification LifeSpec)

\* C34: submit writes the submission timestamp only after the POST of the
\* review was answered with HTTP 200; when no POST is made, when it fails,
\* is answered with another status or with a body that is no JSON, the
\* review on disk is as it was, and a review that was not Submitted does not
\* become so.
C34_SubmittedOnlyAfter200 ==
    op.name = "submit"
    => /\ op.post = "200" => (submitted # <<>> /\ op.out.kind = "Ok")
       /\ op.post # "200"
          => /\ Disk = pre
             /\ pre.submitted = <<>> => status(Disk).kind # "Submitted"

\* the POST of a review with comments was answered with a body that is no
\* JSON, and the review is not marked
C34_Witness ==
    /\ op.name = "submit"
    /\ op.post = "json"
    /\ op.out.kind = "Ok"
    /\ submitted = <<>>
    /\ HasComments(pre)

\* submit_pr would POST the review d: comments() succeeds and yields a review
\* comment, an inline comment or the action Approve
Submittable(d) ==
    LET c == comments(d) IN
    /\ c.kind = "Ok"
    /\ \/ c.review_comment # <<>>
       \/ c.inline_comments # <<>>
       \/ c.action = "Approve"

\* a create or a remove without force was made on the review pre
Unforced == op.name \in {"create", "remove"} /\ ~op.force

----------------------------------------------------------------------------
\* Review::comments on a created review file to which the user adds lines,
\* among them lines that begin with ">"

\* lines of the user that begin with ">" without quoting the diff
QuoteLines == { <<">", "x">>, <<">">> }

QuoteInit ==
    /\ ParserInit
    /\ \E pull \in Pulls :
          /\ original = pull.diff
          /\ contents = prefix_lines(pull.diff, <<">">>)
          /\ commit_id = <<pull.commit>>
    /\ phase = "onDisk"
    /\ snipOut = NotResolved /\ validOut = NotValidated
    /\ submitted = <<>> /\ nEdits = 0
    /\ run = NoRun
    /\ op = NoOp
    /\ pre = OnDisk("none", <<>>, <<>>, <<>>, <<>>)

\* the user saves the review file with a line added that begins with ">"
UserQuote ==
    /\ phase = "onDisk"
    /\ nEdits < MaxEdits
    /\ \E i \in 0..Len(Lines(contents)), l \in QuoteLines :
          contents' = Unlines(InsertAt(Lines(contents), i, l))
    /\ nEdits' = nEdits + 1
    /\ op' = Call("edit", FALSE, <<>>, "", Out("Ok"))
    /\ pre' = Disk
    /\ UNCHANGED <<original, submitted, commit_id, phase>>
    /\ IdleCalls

QuoteNext ==
    \/ UserQuote
    \/ UserEdit
    \/ Comments

QuoteSpec == QuoteInit /\ [][QuoteNext]_vars

\* the lines of the review file d, snips resolved, that the parser takes for
\* quoted and advances its counters on
ParserQuoted(d) ==
    LET rl == Lines(resolve_snips(d.contents, d.original).text) IN
    { i \in 1..Len(rl) : is_quoted(rl[i]) }

\* C36: when comments() succeeds, the lines the parser takes for quoted are
\* the lines that snip resolution and validation matched with the lines of
\* the original, one for each line of the original and no other, so that no
\* line of the user moves the position of a later comment.
C36_QuotedLinesAgree ==
    (op.name = "comments" /\ op.out.kind = "Ok")
    => Cardinality(ParserQuoted(pre)) = Len(Lines(pre.original))

----------------------------------------------------------------------------
\* The calls of resolve_snips_recurse, one step at a time (specification
\* RunSpec): run.pattern and run.text are the slices of the outermost call,
\* run.stack holds one frame for every call in progress, the innermost last,
\* and run.result is what the call that returned last returned.

\* lines of the review file resolved: a quoted line, the elision marker, a
\* comment
RunLines == { QuotePrefix \o <<"a">>, <<"[...]">>, <<"c">> }

\* the slices the outermost call is made on
RunPattern == run.pattern
RunText == run.text

\* a call on pattern[p0..] and text[t0..] of the outermost call, at the head
\* of its while loop with both cursors at the start
Frame(p0, t0) ==
    [p0 |-> p0, t0 |-> t0, pattern_idx |-> 1, text_idx |-> 1,
     cand_text_idx |-> 1, at |-> "loop"]

\* pattern.len() and text.len() of a call
PatLen(f) == Len(RunPattern) - f.p0 + 1
TextLen(f) == Len(RunText) - f.t0 + 1

Top(s) == s[Len(s)]
Pop(s) == SubSeq(s, 1, Len(s) - 1)
SetTop(s, f) == [s EXCEPT ![Len(s)] = f]

RunInit ==
    /\ ParserInit
    /\ original \in { Unlines(t) : t \in SeqsUpTo(TextLines, MaxText) }
    /\ contents \in { Unlines(p) : p \in SeqsUpTo(RunLines, MaxPat) }
    /\ phase = "edited"
    /\ snipOut = NotResolved
    /\ validOut = NotValidated
    /\ submitted = <<>> /\ commit_id = <<>> /\ nEdits = 0
    /\ op = NoOp
    /\ pre = OnDisk("none", <<>>, <<>>, <<>>, <<>>)
    /\ run = [pattern |-> Classify(Lines(contents)), text |-> Lines(original),
              stack |-> <<Frame(1, 1)>>, result |-> "Pending"]

\* return from the innermost call
Return(v) == run' = [run EXCEPT !.stack = Pop(@), !.result = v]

\* one iteration of the while loop in which a comment line leaves the cursor
\* where it is
RunLoopCommentStays ==
    /\ run.stack # <<>>
    /\ Top(run.stack).at = "loop"
    /\ LET f == Top(run.stack) IN
       IF ~(f.pattern_idx <= PatLen(f) \/ f.text_idx <= TextLen(f))
       THEN Return("Some")
       ELSE IF f.pattern_idx <= PatLen(f)
       THEN LET p == RunPattern[f.p0 + f.pattern_idx - 1] IN
            IF p.type = "Quoted"
            THEN IF /\ f.text_idx <= TextLen(f)
                    /\ RunText[f.t0 + f.text_idx - 1] = p.text
                 THEN run' = [run EXCEPT !.stack = SetTop(@,
                                  [f EXCEPT !.pattern_idx = @ + 1,
                                            !.text_idx = @ + 1])]
                 ELSE Return("None")
            ELSE IF p.type = "Comment"
            THEN run' = run
            ELSE run' = [run EXCEPT !.stack = SetTop(@,
                             [f EXCEPT !.at = "for",
                                       !.cand_text_idx = f.text_idx])]
       ELSE Return("None")
    /\ UNCHANGED <<parserVars, original, contents, phase, snipOut, validOut,
                   submitted, commit_id, nEdits, op, pre>>

\* one iteration of the while loop of the innermost call
RunLoop ==
    /\ run.stack # <<>>
    /\ Top(run.stack).at = "loop"
    /\ LET f == Top(run.stack) IN
       IF ~(f.pattern_idx <= PatLen(f) \/ f.text_idx <= TextLen(f))
       THEN Return("Some")
       ELSE IF f.pattern_idx <= PatLen(f)
       THEN LET p == RunPattern[f.p0 + f.pattern_idx - 1] IN
            IF p.type = "Quoted"
            THEN IF /\ f.text_idx <= TextLen(f)
                    /\ RunText[f.t0 + f.text_idx - 1] = p.text
                 THEN run' = [run EXCEPT !.stack = SetTop(@,
                                  [f EXCEPT !.pattern_idx = @ + 1,
                                            !.text_idx = @ + 1])]
                 ELSE Return("None")
            ELSE IF p.type = "Comment"
            THEN run' = [run EXCEPT !.stack = SetTop(@,
                             [f EXCEPT !.pattern_idx = @ + 1])]
            ELSE run' = [run EXCEPT !.stack = SetTop(@,
                             [f EXCEPT !.at = "for",
                                       !.cand_text_idx = f.text_idx])]
       ELSE Return("None")
    /\ UNCHANGED <<parserVars, original, contents, phase, snipOut, validOut,
                   submitted, commit_id, nEdits, op, pre>>

\* the for loop of a Snip: the call on the next candidate, or the end of the
\* candidates and the return None below the match
RunFor ==
    /\ run.stack # <<>>
    /\ Top(run.stack).at = "for"
    /\ LET f == Top(run.stack) IN
       IF f.cand_text_idx <= TextLen(f) + 1
       THEN run' = [run EXCEPT
                        !.stack = Append(SetTop(@, [f EXCEPT !.at = "call"]),
                                         Frame(f.p0 + f.pattern_idx,
                                               f.t0 + f.cand_text_idx - 1)),
                        !.result = "Pending"]
       ELSE Return("None")
    /\ UNCHANGED <<parserVars, original, contents, phase, snipOut, validOut,
                   submitted, commit_id, nEdits, op, pre>>

\* the call on a candidate has returned: Some is returned on, None moves to
\* the next candidate
RunResume ==
    /\ run.stack # <<>>
    /\ Top(run.stack).at = "call"
    /\ LET f == Top(run.stack) IN
       IF run.result = "Some"
       THEN Return("Some")
       ELSE run' = [run EXCEPT
                        !.stack = SetTop(@, [f EXCEPT !.at = "for",
                                                      !.cand_text_idx = @ + 1]),
                        !.result = "Pending"]
    /\ UNCHANGED <<parserVars, original, contents, phase, snipOut, validOut,
                   submitted, commit_id, nEdits, op, pre>>

RunNext == RunLoop \/ RunFor \/ RunResume

\* the program runs on until the outermost call has returned
RunSpec == RunInit /\ [][RunNext]_vars /\ WF_vars(RunNext)

\* the outermost call has returned
RunDone == run.stack = <<>>

\* a step of the calls in progress: a call made is made on a strictly shorter
\* pattern; an iteration of the while loop that goes round again has advanced
\* pattern_idx; a call that has entered the for loop does not go round again
RunProgress ==
    LET s == run.stack
        n == run'.stack
    IN /\ Len(n) > Len(s) => PatLen(Top(n)) < PatLen(Top(s))
       /\ (Len(n) = Len(s) /\ s # <<>>) =>
            /\ (Top(s).at = "loop" /\ Top(n).at = "loop")
               => Top(n).pattern_idx = Top(s).pattern_idx + 1
            /\ Top(s).at # "loop" => Top(n).at # "loop"

\* number of elision markers of the pattern
RECURSIVE CountSnips(_)
CountSnips(pattern) ==
    IF pattern = <<>> THEN 0
    ELSE (IF pattern[1].type = "Snip" THEN 1 ELSE 0) + CountSnips(Tail(pattern))

\* C39: snip resolution terminates for every pattern and original text, also
\* with many elision markers: the outermost call of resolve_snips_recurse
\* returns in the end, every recursive call is made on a strictly shorter
\* pattern, and every iteration of the while loop advances the pattern cursor
\* or returns.
C39_SnipResolutionTerminates == <>RunDone /\ [][RunProgress]_vars

\* the resolution of a pattern that begins with an elision marker and holds
\* three of them has returned None: every candidate of the first has failed
C39_Witness ==
    /\ RunDone
    /\ run.result = "None"
    /\ RunPattern # <<>>
    /\ RunPattern[1].type = "Snip"
    /\ CountSnips(RunPattern) >= 3
    /\ Len(RunText) >= 2

====
